---------------------------- MODULE Spec2Model ----------------------------
(***************************************************************************)
(* Request dispatch (api.Router) and expense enrichment (package           *)
(* financial) of vassistant-backend.                                       *)
(*                                                                         *)
(* A path is a sequence of one-character strings.  A route pattern is the  *)
(* regular expression handed to AddRoute, kept as its sequence of tokens:  *)
(* a literal character or a capture group (named or unnamed) over a        *)
(* character class with the + quantifier.                                  *)
(***************************************************************************)
EXTENDS Integers, Sequences, FiniteSets, Bags, TLC

VARIABLES
    routes,      \* Router.routes: the registered routes, in registration order
    request,     \* the request handed to the last call (NoRequest before any)
    response,    \* the response of the last call
    invoked,     \* handler invocations made by the last Router.Serve
    table,       \* splitter-expenses: the group's items, ascending by dateTime
    chat,        \* chat: the messages written, in the order of the writes
    storeCalls,  \* DynamoDbClient calls made by the last handler, in order
    handler      \* name of the operation that produced `response`

vars == <<routes, request, response, invoked, table, chat, storeCalls, handler>>

-----------------------------------------------------------------------------
(* Bounds *)

MaxRoutes == 2
MaxPathLen == 4
MaxExpenses == 2
MaxMessages == 3
MaxSegments == 4

-----------------------------------------------------------------------------
(* Helpers on sequences *)

Range(s) == {s[i] : i \in 1..Len(s)}

SeqsUpTo(S, n) == UNION {[1..k -> S] : k \in 0..n}

RECURSIVE Reverse(_)
Reverse(s) == IF s = <<>> THEN <<>> ELSE Reverse(Tail(s)) \o <<Head(s)>>

NoRequest == [HTTPMethod |-> "", Path |-> <<>>, PathParameters |-> <<>>]
NoResponse == [StatusCode |-> 0, Body |-> "none", err |-> "nil"]

-----------------------------------------------------------------------------
(* common.CreateErrorResponse.  A handler returns a response and an error: *)
(* the record of a response carries the error beside it in err.            *)

CreateErrorResponse(statusCode, message) ==
    [StatusCode |-> statusCode, Body |-> [error |-> message], err |-> "nil"]

-----------------------------------------------------------------------------
(* regexp: the patterns AddRoute compiles, and FindStringSubmatch *)

Lit(c) == [kind |-> "lit", ch |-> c, name |-> "", cls |-> ""]
Group(n, c) == [kind |-> "group", ch |-> "", name |-> n, cls |-> c]

Alphabet == {"/", "a", "b"}

\* membership of a character in a character class
InClass(c, cls) == IF cls = "[^/]" THEN c # "/" ELSE TRUE

\* the longest run of class characters starting at path[j]
RECURSIVE RunLen(_, _, _)
RunLen(path, j, cls) ==
    IF j > Len(path) \/ ~InClass(path[j], cls) THEN 0
    ELSE 1 + RunLen(path, j + 1, cls)

\* Anchored match of pat[i..] against path[j..]; leftmost-first semantics:
\* a greedy + tries the longest run first and backs off one character at a
\* time.  Result: whether it matched and the text of the capture groups.
RECURSIVE MatchFrom(_, _, _, _), TryLen(_, _, _, _, _)
MatchFrom(pat, i, path, j) ==
    IF i > Len(pat) THEN [ok |-> j = Len(path) + 1, caps |-> <<>>]
    ELSE IF pat[i].kind = "lit"
    THEN IF j <= Len(path) /\ path[j] = pat[i].ch
         THEN MatchFrom(pat, i + 1, path, j + 1)
         ELSE [ok |-> FALSE, caps |-> <<>>]
    ELSE TryLen(pat, i, path, j, RunLen(path, j, pat[i].cls))

TryLen(pat, i, path, j, n) ==
    IF n < 1 THEN [ok |-> FALSE, caps |-> <<>>]
    ELSE LET r == MatchFrom(pat, i + 1, path, j + n)
         IN IF r.ok
            THEN [ok |-> TRUE, caps |-> <<SubSeq(path, j, j + n - 1)>> \o r.caps]
            ELSE TryLen(pat, i, path, j, n - 1)

\* FindStringSubmatch of a pattern compiled without the closing "$": a match
\* of a prefix of the path is a match
FindStringSubmatch_Unanchored(pat, path) ==
    LET ks == {k \in 0..Len(path) : MatchFrom(pat, 1, SubSeq(path, 1, k), 1).ok}
    IN IF ks = {} THEN <<>>
       ELSE LET k == CHOOSE x \in ks : \A y \in ks : y <= x
            IN <<SubSeq(path, 1, k)>> \o MatchFrom(pat, 1, SubSeq(path, 1, k), 1).caps

\* Regexp.FindStringSubmatch on "^" + pattern + "$": the empty sequence when
\* there is no match, else the whole match followed by each group's text.
FindStringSubmatch(pat, path) ==
    LET r == MatchFrom(pat, 1, path, 1)
    IN IF r.ok THEN <<path>> \o r.caps ELSE <<>>

\* Regexp.SubexpNames: "" for the whole match, then each group's name.
SubexpNames(pat) ==
    <<"">> \o [k \in 1..Cardinality({i \in 1..Len(pat) : pat[i].kind = "group"}) |->
                 LET idx == CHOOSE i \in 1..Len(pat) :
                              /\ pat[i].kind = "group"
                              /\ Cardinality({m \in 1..i : pat[m].kind = "group"}) = k
                 IN pat[idx].name]

-----------------------------------------------------------------------------
(* package api: Route, Router, NewRouter, AddRoute, Serve *)

Methods == {"GET", "POST"}

\* the patterns routes are registered with
PatLit == <<Lit("/"), Lit("a")>>
PatSeg == <<Lit("/"), Group("groupId", "[^/]")>>
PatSegLit == <<Lit("/"), Group("groupId", "[^/]"), Lit("/"), Lit("b")>>
PatUnnamed == <<Lit("/"), Group("", "[^/]"), Lit("/"), Group("expenseId", "[^/]")>>
PatAny == <<Lit("/"), Group("rest", ".")>>

Patterns == {PatLit, PatSeg, PatSegLit, PatUnnamed, PatAny}

\* the handler registered by the k-th AddRoute
HandlerNames == <<"h1", "h2", "h3", "h4">>

\* request paths: "/" followed by up to MaxPathLen - 1 characters
Paths == {<<"/">> \o t : t \in SeqsUpTo(Alphabet, MaxPathLen - 1)}

Route(method, path, h) == [Method |-> method, Path |-> path, Handler |-> h]

NewRouter == <<>>

\* a handler as the router sees it, an opaque callable: it answers with its
\* own name
HandlerFunc(h, req) == [StatusCode |-> 200, Body |-> h, err |-> "nil"]

\* the loop of Serve without its test on the group's index and name
RECURSIVE PathParams_AllGroups(_, _, _, _)
PathParams_AllGroups(names, matches, i, acc) ==
    IF i > Len(names) THEN acc
    ELSE PathParams_AllGroups(names, matches, i + 1,
                    [n \in (DOMAIN acc) \cup {names[i]} |->
                        IF n = names[i] THEN matches[i] ELSE acc[n]])

\* the loop of Serve over SubexpNames (Go index i is i - 1 here)
RECURSIVE PathParams(_, _, _, _)
PathParams(names, matches, i, acc) ==
    IF i > Len(names) THEN acc
    ELSE IF i # 1 /\ names[i] # ""
    THEN PathParams(names, matches, i + 1,
                    [n \in (DOMAIN acc) \cup {names[i]} |->
                        IF n = names[i] THEN matches[i] ELSE acc[n]])
    ELSE PathParams(names, matches, i + 1, acc)

\* the scan of Serve keeping the last matching route instead of the first
RECURSIVE ServeFrom_LastMatch(_, _, _)
ServeFrom_LastMatch(rs, k, req) ==
    IF k > Len(rs)
    THEN [response |-> CreateErrorResponse(404, "Not Found"), invoked |-> <<>>]
    ELSE LET route == rs[k]
             matches == FindStringSubmatch(route.Path, req.Path)
             later == ServeFrom_LastMatch(rs, k + 1, req)
         IN IF later.invoked # <<>> THEN later
            ELSE IF route.Method = req.HTTPMethod /\ Len(matches) > 0
            THEN LET pathParams == PathParams(SubexpNames(route.Path), matches, 1, <<>>)
                     req2 == [req EXCEPT !.PathParameters = pathParams]
                 IN [response |-> HandlerFunc(route.Handler, req2),
                     invoked |-> <<[route |-> k, Handler |-> route.Handler,
                                    request |-> req2]>>]
            ELSE later

\* the scan of Serve without the comparison of the verbs
RECURSIVE ServeFrom_AnyVerb(_, _, _)
ServeFrom_AnyVerb(rs, k, req) ==
    IF k > Len(rs)
    THEN [response |-> CreateErrorResponse(404, "Not Found"), invoked |-> <<>>]
    ELSE LET route == rs[k]
             matches == FindStringSubmatch(route.Path, req.Path)
         IN IF Len(matches) > 0
            THEN LET pathParams == PathParams(SubexpNames(route.Path), matches, 1, <<>>)
                     req2 == [req EXCEPT !.PathParameters = pathParams]
                 IN [response |-> HandlerFunc(route.Handler, req2),
                     invoked |-> <<[route |-> k, Handler |-> route.Handler,
                                    request |-> req2]>>]
            ELSE ServeFrom_AnyVerb(rs, k + 1, req)

\* the scan of Serve without the return at the first match: every matching
\* route's handler runs and the last response is the answer
RECURSIVE ServeFrom_NoReturn(_, _, _)
ServeFrom_NoReturn(rs, k, req) ==
    IF k > Len(rs)
    THEN [response |-> CreateErrorResponse(404, "Not Found"), invoked |-> <<>>]
    ELSE LET route == rs[k]
             matches == FindStringSubmatch(route.Path, req.Path)
             later == ServeFrom_NoReturn(rs, k + 1, req)
         IN IF route.Method = req.HTTPMethod /\ Len(matches) > 0
            THEN LET pathParams == PathParams(SubexpNames(route.Path), matches, 1, <<>>)
                     req2 == [req EXCEPT !.PathParameters = pathParams]
                 IN [response |-> IF later.invoked # <<>> THEN later.response
                                  ELSE HandlerFunc(route.Handler, req2),
                     invoked |-> <<[route |-> k, Handler |-> route.Handler,
                                    request |-> req2]>> \o later.invoked]
            ELSE later

\* the scan of Serve adding the captures to the path parameters the request
\* came with
RECURSIVE ServeFrom_KeepIncoming(_, _, _)
ServeFrom_KeepIncoming(rs, k, req) ==
    IF k > Len(rs)
    THEN [response |-> CreateErrorResponse(404, "Not Found"), invoked |-> <<>>]
    ELSE LET route == rs[k]
             matches == FindStringSubmatch(route.Path, req.Path)
         IN IF route.Method = req.HTTPMethod /\ Len(matches) > 0
            THEN LET pathParams == PathParams(SubexpNames(route.Path), matches, 1,
                                              req.PathParameters)
                     req2 == [req EXCEPT !.PathParameters = pathParams]
                 IN [response |-> HandlerFunc(route.Handler, req2),
                     invoked |-> <<[route |-> k, Handler |-> route.Handler,
                                    request |-> req2]>>]
            ELSE ServeFrom_KeepIncoming(rs, k + 1, req)

\* the scan of Serve from route k on: the response and the handler calls made
RECURSIVE ServeFrom(_, _, _)
ServeFrom(rs, k, req) ==
    IF k > Len(rs)
    THEN [response |-> CreateErrorResponse(404, "Not Found"), invoked |-> <<>>]
    ELSE LET route == rs[k]
             matches == FindStringSubmatch(route.Path, req.Path)
         IN IF route.Method = req.HTTPMethod /\ Len(matches) > 0
            THEN LET pathParams == PathParams(SubexpNames(route.Path), matches, 1, <<>>)
                     req2 == [req EXCEPT !.PathParameters = pathParams]
                 IN [response |-> HandlerFunc(route.Handler, req2),
                     invoked |-> <<[route |-> k, Handler |-> route.Handler,
                                    request |-> req2]>>]
            ELSE ServeFrom(rs, k + 1, req)

\* no invocation is in progress: the runtime awaits the next request
Idle == handler = "none"

AddRoute(method, path) ==
    /\ Idle
    /\ Len(routes) < MaxRoutes
    /\ routes' = Append(routes, Route(method, path, HandlerNames[Len(routes) + 1]))
    /\ UNCHANGED <<request, response, invoked, table, chat, storeCalls, handler>>

Serve(req) ==
    LET r == ServeFrom(routes, 1, req)
    IN /\ Idle
       /\ request' = req
       /\ response' = r.response
       /\ invoked' = r.invoked
       /\ handler' = "Serve"
       /\ UNCHANGED <<routes, table, chat, storeCalls>>

\* the response goes back to the Lambda runtime; the invocation is over
Return ==
    /\ ~Idle
    /\ request' = NoRequest
    /\ response' = NoResponse
    /\ invoked' = <<>>
    /\ storeCalls' = <<>>
    /\ handler' = "none"
    /\ UNCHANGED <<routes, table, chat>>

RouterInit ==
    /\ routes = NewRouter
    /\ request = NoRequest
    /\ response = NoResponse
    /\ invoked = <<>>
    /\ table = <<>>
    /\ chat = <<>>
    /\ storeCalls = <<>>
    /\ handler = "none"

RouterNext ==
    \/ \E m \in Methods, p \in Patterns : AddRoute(m, p)
    \/ \E m \in Methods, p \in Paths :
          Serve([HTTPMethod |-> m, Path |-> p, PathParameters |-> <<>>])
    \/ Return

RouterSpec == RouterInit /\ [][RouterNext]_vars

-----------------------------------------------------------------------------
(* Router properties.  The language of a pattern is stated here on its own, *)
(* by the splits of the path it admits, not by the matcher above.           *)

AllInClass(t, cls) == \A m \in 1..Len(t) : InClass(t[m], cls)

\* path is in the language of ^pat$
RECURSIVE Denotes(_, _)
Denotes(pat, path) ==
    IF pat = <<>> THEN path = <<>>
    ELSE IF Head(pat).kind = "lit"
    THEN path # <<>> /\ Head(path) = Head(pat).ch /\ Denotes(Tail(pat), Tail(path))
    ELSE \E n \in 1..Len(path) :
            /\ AllInClass(SubSeq(path, 1, n), Head(pat).cls)
            /\ Denotes(Tail(pat), SubSeq(path, n + 1, Len(path)))

\* path is pat with every named group replaced by its value in params and
\* every unnamed group by some text of its class
RECURSIVE Fits(_, _, _)
Fits(pat, path, params) ==
    IF pat = <<>> THEN path = <<>>
    ELSE IF Head(pat).kind = "lit"
    THEN path # <<>> /\ Head(path) = Head(pat).ch
         /\ Fits(Tail(pat), Tail(path), params)
    ELSE IF Head(pat).name # ""
    THEN LET v == params[Head(pat).name]
         IN /\ Len(v) >= 1 /\ Len(v) <= Len(path)
            /\ SubSeq(path, 1, Len(v)) = v
            /\ AllInClass(v, Head(pat).cls)
            /\ Fits(Tail(pat), SubSeq(path, Len(v) + 1, Len(path)), params)
    ELSE \E n \in 1..Len(path) :
            /\ AllInClass(SubSeq(path, 1, n), Head(pat).cls)
            /\ Fits(Tail(pat), SubSeq(path, n + 1, Len(path)), params)

NamedGroups(pat) ==
    {pat[i].name : i \in {m \in 1..Len(pat) : pat[m].kind = "group" /\ pat[m].name # ""}}

\* the routes whose verb equals the request's and whose pattern admits its path
MatchingRoutes ==
    {k \in 1..Len(routes) :
        routes[k].Method = request.HTTPMethod /\ Denotes(routes[k].Path, request.Path)}

\* the routes whose pattern admits the path, whatever their verb
PathMatchingRoutes == {k \in 1..Len(routes) : Denotes(routes[k].Path, request.Path)}

Served == handler = "Serve"

NotFound == [StatusCode |-> 404, Body |-> [error |-> "Not Found"], err |-> "nil"]

\* C1: a request matching the verb and pattern of exactly one route reaches
\* that route's handler, and the handler's path-variable map has exactly the
\* pattern's named groups as keys, each mapped to the text it captured.
C1_SingleMatchDispatch ==
    (Served /\ Cardinality(MatchingRoutes) = 1) =>
        LET k == CHOOSE i \in MatchingRoutes : TRUE
        IN /\ Len(invoked) = 1
           /\ invoked[1].route = k
           /\ invoked[1].Handler = routes[k].Handler
           /\ response = HandlerFunc(routes[k].Handler, invoked[1].request)
           /\ DOMAIN invoked[1].request.PathParameters = NamedGroups(routes[k].Path)
           /\ Fits(routes[k].Path, request.Path, invoked[1].request.PathParameters)

\* C1 witness: the one matching route has an unnamed and a named group
C1_Witness ==
    /\ Served
    /\ Cardinality(MatchingRoutes) = 1
    /\ Len(routes) = 2
    /\ Len(invoked) = 1
    /\ routes[invoked[1].route].Path = PatUnnamed
    /\ invoked[1].request.PathParameters = [expenseId |-> <<"b">>]

\* C2: of several routes with the request's verb whose patterns admit the
\* path, the one registered first is dispatched to.
C2_FirstRegisteredWins ==
    (Served /\ MatchingRoutes # {}) =>
        /\ invoked # <<>>
        /\ \A j \in MatchingRoutes : invoked[1].route <= j

\* C2 witness: two routes of different specificity both match; the first,
\* less specific one is dispatched to
C2_Witness ==
    /\ Served
    /\ MatchingRoutes = {1, 2}
    /\ routes[1].Path = PatAny
    /\ routes[2].Path = PatSegLit
    /\ invoked # <<>>
    /\ invoked[1].route = 1

\* C3: a request matching no registered route (also with no route at all)
\* gets the 404 "Not Found" response and no handler is invoked.
C3_NoMatchNotFound ==
    (Served /\ MatchingRoutes = {}) => (response = NotFound /\ invoked = <<>>)

\* C3 witness: two routes are registered, one admits the path under the
\* other verb, and the answer is 404
C3_Witness ==
    /\ Served
    /\ Len(routes) = 2
    /\ MatchingRoutes = {}
    /\ PathMatchingRoutes # {}
    /\ response = NotFound

\* C4: a route whose pattern admits the path but whose verb differs is
\* never dispatched to; a later route with the same pattern and the
\* request's verb is still dispatched to (unless a route before it matched);
\* with no route of the right verb the answer is 404, never 405.
C4_VerbMismatchSkipped ==
    Served =>
        /\ \A c \in Range(invoked) : routes[c.route].Method = request.HTTPMethod
        /\ \A i, j \in 1..Len(routes) :
              (/\ i < j
               /\ Denotes(routes[i].Path, request.Path)
               /\ routes[i].Method # request.HTTPMethod
               /\ routes[j].Path = routes[i].Path
               /\ routes[j].Method = request.HTTPMethod
               /\ \A k \in 1..(j - 1) : k \notin MatchingRoutes)
              => (invoked # <<>> /\ invoked[1].route = j)
        /\ (\A k \in PathMatchingRoutes : routes[k].Method # request.HTTPMethod)
              => response.StatusCode = 404
        /\ response.StatusCode # 405

\* C4 witness: the first route has the pattern under the wrong verb, the
\* second the same pattern under the right verb, and the second is reached
C4_Witness ==
    /\ Served
    /\ Len(routes) = 2
    /\ routes[1].Path = routes[2].Path
    /\ routes[1].Method # request.HTTPMethod
    /\ routes[2].Method = request.HTTPMethod
    /\ invoked # <<>>
    /\ invoked[1].route = 2

\* C5: a call of Serve invokes exactly one handler when some route matches
\* and none otherwise, and leaves the route list as it was.
C5_OneHandlerPerDispatch ==
    [][Served' =>
         /\ routes' = routes
         /\ Len(invoked') = IF MatchingRoutes' # {} THEN 1 ELSE 0]_vars

\* C5 witness: two routes match the request and one handler was invoked
C5_Witness ==
    /\ Served
    /\ Cardinality(MatchingRoutes) = 2
    /\ Len(invoked) = 1

-----------------------------------------------------------------------------
(* package financial: the records *)

UserIds == {"u1", "u2"}

\* the values a user reference (paidBy, createdBy, participant userId) takes
Refs == {""} \cup UserIds

GroupIds == {"g1", "g2"}

\* the ids uuid.New() hands out, in order
ExpenseIds == <<"e1", "e2", "e3", "e4">>

\* User{}: the zero value
ZeroUser == [UserID |-> "", Username |-> "", ShowableName |-> "", Role |-> ""]

\* the item of vassistant-users with key u
UserItem(u) ==
    [userId |-> u,
     username |-> IF u = "u1" THEN "ann" ELSE "bob",
     showableName |-> IF u = "u1" THEN "Ann A." ELSE "Bob B.",
     role |-> IF u = "u1" THEN "admin" ELSE "member"]

\* a participants attribute of an item of splitter-expenses
ParticipantItem(u) == [userId |-> u, share |-> "50"]

\* the participants lists of the items written: none, two users, one
\* participant without a user id
ParticipantLists ==
    {<<>>, <<ParticipantItem("u1"), ParticipantItem("u2")>>, <<ParticipantItem("")>>}

\* time.Now().Format(time.RFC3339) at the n-th tick of the clock
Timestamps == <<"2026-01-01T00:00:01Z", "2026-01-01T00:00:02Z",
                "2026-01-01T00:00:03Z", "2026-01-01T00:00:04Z">>

\* an item of splitter-expenses.  title, category, imageUrl and splitType
\* are plain string attributes carried exactly like amount.
ExpenseItem(id, dt, paidBy, createdBy, ps) ==
    [expenseId |-> id, groupId |-> "g1", amount |-> "100", dateTime |-> dt,
     paidBy |-> paidBy, createdBy |-> createdBy, participants |-> ps,
     createdAt |-> Timestamps[dt]]

\* attributevalue.UnmarshalMap into User
UnmarshalUser(item) ==
    [UserID |-> item.userId, Username |-> item.username,
     ShowableName |-> item.showableName, Role |-> item.role]

\* attributevalue.UnmarshalMap into FinancialExpense: the fields tagged
\* dynamodbav:"-" (PaidByUser, CreatedByUser, Participant.User) stay zero
UnmarshalExpense(item) ==
    [ExpenseID |-> item.expenseId, GroupID |-> item.groupId,
     Amount |-> item.amount, DateTime |-> item.dateTime,
     PaidBy |-> item.paidBy, CreatedBy |-> item.createdBy,
     CreatedAt |-> item.createdAt,
     Participants |-> [j \in 1..Len(item.participants) |->
                          [UserID |-> item.participants[j].userId,
                           Share |-> item.participants[j].share,
                           User |-> ZeroUser]],
     PaidByUser |-> ZeroUser, CreatedByUser |-> ZeroUser]

UnmarshalListOfMaps(items) == [i \in 1..Len(items) |-> UnmarshalExpense(items[i])]

\* json.Marshal of User
UserJSON(u) ==
    [userId |-> u.UserID, username |-> u.Username,
     showableName |-> u.ShowableName, role |-> u.Role]

\* json.Marshal of Participant: the embedded User is flattened into the
\* object and its userId is hidden by Participant.UserID
ParticipantJSON(p) ==
    [userId |-> p.UserID, share |-> p.Share, username |-> p.User.Username,
     showableName |-> p.User.ShowableName, role |-> p.User.Role]

\* json.Marshal of FinancialExpense
ExpenseJSON(e) ==
    [expenseId |-> e.ExpenseID, groupId |-> e.GroupID, amount |-> e.Amount,
     dateTime |-> e.DateTime, paidBy |-> e.PaidBy,
     participants |-> [j \in 1..Len(e.Participants) |-> ParticipantJSON(e.Participants[j])],
     paidByUser |-> UserJSON(e.PaidByUser),
     createdBy |-> e.CreatedBy,
     createdAt |-> e.CreatedAt,
     createdByUser |-> UserJSON(e.CreatedByUser)]

ExpensesJSON(es) == [i \in 1..Len(es) |-> ExpenseJSON(es[i])]

OkResponse(statusCode, body) ==
    [StatusCode |-> statusCode, Body |-> body, err |-> "nil"]

-----------------------------------------------------------------------------
(* the store behind common.DynamoDBAPI *)

\* Query on groupId-dateTime-index: the group's items by dateTime, ascending
\* when ScanIndexForward, descending otherwise
Query(tbl, input) ==
    LET items == SelectSeq(tbl, LAMBDA it : it.groupId = input.groupId)
    IN IF input.ScanIndexForward THEN items ELSE Reverse(items)

\* GetItem: the item with the key, or none
GetItem(tbl, input) ==
    SelectSeq(tbl, LAMBDA it : it.groupId = input.groupId /\ it.expenseId = input.expenseId)

\* BatchGetItem on vassistant-users holding the items of held: the items
\* whose key is among keys
BatchGetItem(held, keys) == {UserItem(u) : u \in held \cap BagToSet(keys)}

\* the Responses["vassistant-users"] of a BatchGetItem that comes to b: none
\* after an error; the held items with the keys asked for; or, from a client
\* that answers without regard to the keys, the held items
BatchResponse(b, keys) ==
    IF b.kind = "error" THEN {}
    ELSE IF b.exact THEN BatchGetItem(b.users, keys)
    ELSE {UserItem(u) : u \in b.users}

\* what a call of the store comes to: an error, items that do not unmarshal,
\* or a result
Outcomes == {"ok", "error", "malformed"}

\* the results of BatchGetItem on vassistant-users: the items of the users
\* the table holds
BatchResults == SUBSET UserIds

-----------------------------------------------------------------------------
(* package financial: enrichment with user views *)

\* the user references of one expense in the order the collecting loop
\* reads them: PaidBy always, CreatedBy when not empty, every participant
RefsOf(e) ==
    <<e.PaidBy>>
    \o (IF e.CreatedBy # "" THEN <<e.CreatedBy>> ELSE <<>>)
    \o [j \in 1..Len(e.Participants) |-> e.Participants[j].UserID]

RECURSIVE AllRefs(_)
AllRefs(expenses) ==
    IF expenses = <<>> THEN <<>>
    ELSE RefsOf(Head(expenses)) \o AllRefs(Tail(expenses))

\* userIds: the map[string]struct{} the loop fills
CollectUserIds(expenses) == Range(AllRefs(expenses))

\* keys with one entry for every reference read, the set being skipped
BatchKeys_PerReference(expenses) ==
    LET refs == AllRefs(expenses)
    IN [id \in Range(refs) |-> Cardinality({i \in 1..Len(refs) : refs[i] = id})]

\* keys: one key per entry of userIds.  Go ranges over the map in no fixed
\* order, so the list is kept as the bag of its elements.
BatchKeys(expenses) == SetToBag(CollectUserIds(expenses))

\* userMap: userId -> User, from the items BatchGetItem returned
UserMap(userItems) ==
    [id \in {it.userId : it \in userItems} |->
        UnmarshalUser(CHOOSE it \in userItems : it.userId = id)]

\* the populate loop body without the lookup's ok test: a missing user
\* drops the participant
PopulateExpense_DropMissing(e, userMap) ==
    [e EXCEPT
       !.PaidByUser = IF e.PaidBy \in DOMAIN userMap THEN userMap[e.PaidBy] ELSE @,
       !.CreatedByUser = IF e.CreatedBy \in DOMAIN userMap THEN userMap[e.CreatedBy] ELSE @,
       !.Participants =
           LET kept == SelectSeq(e.Participants, LAMBDA q : q.UserID \in DOMAIN userMap)
           IN [j \in 1..Len(kept) |-> [kept[j] EXCEPT !.User = userMap[kept[j].UserID]]]]

\* the populate loop body with the view assigned over the whole participant
PopulateExpense_OverwriteParticipant(e, userMap) ==
    [e EXCEPT
       !.PaidByUser = IF e.PaidBy \in DOMAIN userMap THEN userMap[e.PaidBy] ELSE @,
       !.CreatedByUser = IF e.CreatedBy \in DOMAIN userMap THEN userMap[e.CreatedBy] ELSE @,
       !.Participants =
           [j \in 1..Len(e.Participants) |->
               LET q == e.Participants[j]
               IN IF q.UserID \in DOMAIN userMap
                  THEN [UserID |-> q.UserID, Share |-> "", User |-> userMap[q.UserID]]
                  ELSE q]]

\* the populate loop body appending the enriched participants to the list
\* instead of assigning them in place
PopulateExpense_AppendParticipants(e, userMap) ==
    [e EXCEPT
       !.PaidByUser = IF e.PaidBy \in DOMAIN userMap THEN userMap[e.PaidBy] ELSE @,
       !.CreatedByUser = IF e.CreatedBy \in DOMAIN userMap THEN userMap[e.CreatedBy] ELSE @,
       !.Participants =
           LET found == SelectSeq(e.Participants, LAMBDA q : q.UserID \in DOMAIN userMap)
           IN e.Participants
              \o [j \in 1..Len(found) |-> [found[j] EXCEPT !.User = userMap[found[j].UserID]]]]

\* the populate loop body taking, for the payer, a fetched user whatever
\* its key when the payer's own is not there
PopulateExpense_AnyFetched(e, userMap) ==
    [e EXCEPT
       !.PaidByUser = IF e.PaidBy \in DOMAIN userMap THEN userMap[e.PaidBy]
                      ELSE IF DOMAIN userMap # {}
                      THEN userMap[CHOOSE id \in DOMAIN userMap : TRUE]
                      ELSE @,
       !.CreatedByUser = IF e.CreatedBy \in DOMAIN userMap THEN userMap[e.CreatedBy] ELSE @,
       !.Participants =
           [j \in 1..Len(e.Participants) |->
               LET q == e.Participants[j]
               IN IF q.UserID \in DOMAIN userMap
                  THEN [q EXCEPT !.User = userMap[q.UserID]]
                  ELSE q]]

\* the populate loop body for one expense
PopulateExpense(e, userMap) ==
    [e EXCEPT
       !.PaidByUser = IF e.PaidBy \in DOMAIN userMap THEN userMap[e.PaidBy] ELSE @,
       !.CreatedByUser = IF e.CreatedBy \in DOMAIN userMap THEN userMap[e.CreatedBy] ELSE @,
       !.Participants =
           [j \in 1..Len(e.Participants) |->
               LET q == e.Participants[j]
               IN IF q.UserID \in DOMAIN userMap
                  THEN [q EXCEPT !.User = userMap[q.UserID]]
                  ELSE q]]

Populate(expenses, userMap) ==
    [i \in 1..Len(expenses) |-> PopulateExpense(expenses[i], userMap)]

\* the failure handed back as the handler's error instead of a response:
\* return events.APIGatewayProxyResponse{}, err
InternalError_Returned ==
    [StatusCode |-> 0, Body |-> "", err |-> "Internal server error"]

InternalError == CreateErrorResponse(500, "Internal server error")

\* collect, fetch and populate with the error of BatchGetItem only logged:
\* the expenses go on as they were read
Enrich_IgnoreFailure(expenses, b) ==
    LET keys == BatchKeys(expenses)
        call == [op |-> "BatchGetItem", table |-> "vassistant-users",
                 input |-> keys, outcome |-> b.kind,
                 result |-> BatchResponse(b, keys)]
    IN IF keys = EmptyBag
       THEN [ok |-> TRUE, expenses |-> expenses, calls |-> <<>>]
       ELSE [ok |-> TRUE,
             expenses |-> IF b.kind # "ok" THEN expenses
                          ELSE Populate(expenses, UserMap(call.result)),
             calls |-> <<call>>]

\* collect, fetch and populate with BatchGetItem called a second time after
\* it returned an error
Enrich_RetryFailure(expenses, b) ==
    LET keys == BatchKeys(expenses)
        call == [op |-> "BatchGetItem", table |-> "vassistant-users",
                 input |-> keys, outcome |-> b.kind,
                 result |-> BatchResponse(b, keys)]
    IN IF keys = EmptyBag
       THEN [ok |-> TRUE, expenses |-> expenses, calls |-> <<>>]
       ELSE IF b.kind = "error"
       THEN [ok |-> FALSE, expenses |-> expenses, calls |-> <<call, call>>]
       ELSE IF b.kind # "ok"
       THEN [ok |-> FALSE, expenses |-> expenses, calls |-> <<call>>]
       ELSE [ok |-> TRUE,
             expenses |-> Populate(expenses, UserMap(call.result)),
             calls |-> <<call>>]

\* Collect, fetch and populate, as GetGroupExpensesHandler does for its list
\* and GetExpenseHandler for its one expense.  b is what BatchGetItem comes
\* to if it is called.  The result: whether the handler goes on, the
\* expenses, and the store calls made.
Enrich(expenses, b) ==
    LET keys == BatchKeys(expenses)
        call == [op |-> "BatchGetItem", table |-> "vassistant-users",
                 input |-> keys, outcome |-> b.kind,
                 result |-> BatchResponse(b, keys)]
    IN IF keys = EmptyBag
       THEN [ok |-> TRUE, expenses |-> expenses, calls |-> <<>>]
       ELSE IF b.kind # "ok"
       THEN [ok |-> FALSE, expenses |-> expenses, calls |-> <<call>>]
       ELSE [ok |-> TRUE,
             expenses |-> Populate(expenses, UserMap(call.result)),
             calls |-> <<call>>]

-----------------------------------------------------------------------------
(* package financial: the handlers *)

\* the value of a path parameter and whether it is there
HasParam(req, k) == k \in DOMAIN req.PathParameters
Param(req, k) == IF HasParam(req, k) THEN req.PathParameters[k] ELSE ""

\* the QueryInput of GetGroupExpensesHandler read in ascending order
ExpensesQueryInput_Forward(groupId) ==
    [TableName |-> "splitter-expenses", IndexName |-> "groupId-dateTime-index",
     groupId |-> groupId, ScanIndexForward |-> TRUE]

\* the QueryInput of GetGroupExpensesHandler
ExpensesQueryInput(groupId) ==
    [TableName |-> "splitter-expenses", IndexName |-> "groupId-dateTime-index",
     groupId |-> groupId, ScanIndexForward |-> FALSE]

\* GetGroupExpensesHandler with the users fetched ahead of the query
GetGroupExpenses_FetchFirst(tbl, req, q, b) ==
    LET groupId == Param(req, "groupId")
        queryInput == ExpensesQueryInput(groupId)
        items == IF q = "error" THEN <<>> ELSE Query(tbl, queryInput)
        queryCall == [op |-> "Query", table |-> queryInput.TableName,
                      input |-> queryInput, outcome |-> q, result |-> items]
        expenses == UnmarshalListOfMaps(items)
        enriched == Enrich(UnmarshalListOfMaps(Query(tbl, queryInput)), b)
    IN IF ~HasParam(req, "groupId") \/ groupId = ""
       THEN [response |-> CreateErrorResponse(400, "Group ID is missing"),
             calls |-> <<>>]
       ELSE IF q # "ok" \/ ~enriched.ok
       THEN [response |-> InternalError, calls |-> enriched.calls \o <<queryCall>>]
       ELSE [response |-> OkResponse(200, ExpensesJSON(enriched.expenses)),
             calls |-> enriched.calls \o <<queryCall>>]

\* GetGroupExpensesHandler on the table tbl; q and b are what Query and
\* BatchGetItem come to.  The result: the response and the store calls.
GetGroupExpenses(tbl, req, q, b) ==
    LET groupId == Param(req, "groupId")
        queryInput == ExpensesQueryInput(groupId)
        items == IF q = "error" THEN <<>> ELSE Query(tbl, queryInput)
        queryCall == [op |-> "Query", table |-> queryInput.TableName,
                      input |-> queryInput, outcome |-> q, result |-> items]
        expenses == UnmarshalListOfMaps(items)
        enriched == Enrich(expenses, b)
    IN IF ~HasParam(req, "groupId") \/ groupId = ""
       THEN [response |-> CreateErrorResponse(400, "Group ID is missing"),
             calls |-> <<>>]
       ELSE IF q # "ok"
       THEN [response |-> InternalError, calls |-> <<queryCall>>]
       ELSE IF ~enriched.ok
       THEN [response |-> InternalError, calls |-> <<queryCall>> \o enriched.calls]
       ELSE [response |-> OkResponse(200, ExpensesJSON(enriched.expenses)),
             calls |-> <<queryCall>> \o enriched.calls]

\* GetExpenseHandler on the table tbl; g and b are what GetItem and
\* BatchGetItem come to
GetExpense(tbl, req, g, b) ==
    LET groupId == Param(req, "groupId")
        expenseId == Param(req, "expenseId")
        getItemInput == [TableName |-> "splitter-expenses",
                         groupId |-> groupId, expenseId |-> expenseId]
        found == IF g = "error" THEN <<>> ELSE GetItem(tbl, getItemInput)
        getCall == [op |-> "GetItem", table |-> getItemInput.TableName,
                    input |-> getItemInput, outcome |-> g, result |-> found]
        enriched == Enrich(UnmarshalListOfMaps(found), b)
    IN IF ~HasParam(req, "groupId") \/ groupId = ""
       THEN [response |-> CreateErrorResponse(400, "Group ID is missing"),
             calls |-> <<>>]
       ELSE IF ~HasParam(req, "expenseId") \/ expenseId = ""
       THEN [response |-> CreateErrorResponse(400, "Expense ID is missing"),
             calls |-> <<>>]
       ELSE IF g = "error"
       THEN [response |-> InternalError, calls |-> <<getCall>>]
       ELSE IF found = <<>>
       THEN [response |-> CreateErrorResponse(404, "Expense not found"),
             calls |-> <<getCall>>]
       ELSE IF g = "malformed"
       THEN [response |-> InternalError, calls |-> <<getCall>>]
       ELSE IF ~enriched.ok
       THEN [response |-> InternalError, calls |-> <<getCall>> \o enriched.calls]
       ELSE [response |-> OkResponse(200, ExpenseJSON(enriched.expenses[1])),
             calls |-> <<getCall>> \o enriched.calls]

\* the path-parameter maps a handler is called with: each key missing, empty
\* or one of its values
ParamMaps(keys, values) ==
    UNION {{pm \in [ks -> UNION {values[k] : k \in ks} \cup {""}] :
               \A k \in ks : pm[k] \in values[k] \cup {""}} : ks \in SUBSET keys}

GroupParams == ParamMaps({"groupId"}, [groupId |-> GroupIds])

ExpenseParams ==
    ParamMaps({"groupId", "expenseId"}, [groupId |-> {"g1"}, expenseId |-> {"e1", "e2"}])

BatchOutcomes ==
    {[kind |-> "ok", users |-> us, exact |-> TRUE] : us \in BatchResults}
    \cup {[kind |-> "error", users |-> {}, exact |-> TRUE],
          [kind |-> "malformed", users |-> UserIds, exact |-> TRUE]}

\* the same of a DynamoDBAPI that answers without regard to the keys
CannedBatchOutcomes == {[b EXCEPT !.exact = FALSE] : b \in BatchOutcomes}

\* what the two store calls of a read handler come to; the second is only
\* made after the first succeeded
StoreOutcomes ==
    {<<"ok", b>> : b \in BatchOutcomes}
    \cup {<<o, [kind |-> "ok", users |-> {}, exact |-> TRUE]>> : o \in {"error", "malformed"}}

CannedStoreOutcomes ==
    {<<"ok", b>> : b \in CannedBatchOutcomes}
    \cup {<<o, [kind |-> "ok", users |-> {}, exact |-> FALSE]>> : o \in {"error", "malformed"}}

\* an expense is written to splitter-expenses; the index keeps the group's
\* items by dateTime, and time moves on between two writes
PutExpense(paidBy, createdBy, ps) ==
    /\ Idle
    /\ Len(table) < MaxExpenses
    /\ table' = Append(table, ExpenseItem(ExpenseIds[Len(table) + 1], Len(table) + 1,
                                          paidBy, createdBy, ps))
    /\ UNCHANGED <<routes, request, response, invoked, chat, storeCalls, handler>>

GetGroupExpensesHandler(req, q, b) ==
    LET r == GetGroupExpenses(table, req, q, b)
    IN /\ Idle
       /\ request' = req
       /\ response' = r.response
       /\ storeCalls' = r.calls
       /\ handler' = "GetGroupExpensesHandler"
       /\ UNCHANGED <<routes, invoked, table, chat>>

GetExpenseHandler(req, g, b) ==
    LET r == GetExpense(table, req, g, b)
    IN /\ Idle
       /\ request' = req
       /\ response' = r.response
       /\ storeCalls' = r.calls
       /\ handler' = "GetExpenseHandler"
       /\ UNCHANGED <<routes, invoked, table, chat>>

Init ==
    /\ routes = NewRouter
    /\ request = NoRequest
    /\ response = NoResponse
    /\ invoked = <<>>
    /\ table = <<>>
    /\ chat = <<>>
    /\ storeCalls = <<>>
    /\ handler = "none"

Next ==
    \/ \E paidBy \in Refs, createdBy \in Refs, ps \in ParticipantLists :
          PutExpense(paidBy, createdBy, ps)
    \/ \E pm \in GroupParams, o \in CannedStoreOutcomes :
          GetGroupExpensesHandler(
              [HTTPMethod |-> "GET", Path |-> <<>>, PathParameters |-> pm], o[1], o[2])
    \/ \E pm \in ExpenseParams, o \in CannedStoreOutcomes :
          GetExpenseHandler(
              [HTTPMethod |-> "GET", Path |-> <<>>, PathParameters |-> pm], o[1], o[2])
    \/ Return

Spec == Init /\ [][Next]_vars

-----------------------------------------------------------------------------
(* Properties of the expense handlers *)

IsListing == handler = "GetGroupExpensesHandler"
IsSingle == handler = "GetExpenseHandler"
IsRead == IsListing \/ IsSingle

Succeeded == response.StatusCode = 200

BatchCalls == SelectSeq(storeCalls, LAMBDA c : c.op = "BatchGetItem")

\* the items the primary call (Query or GetItem) returned
PrimaryItems == storeCalls[1].result

\* the expenses of a 200 response, as a list
ResponseExpenses == IF IsListing THEN response.Body ELSE <<response.Body>>

\* the view a response carries for a user the fetch returned, and for one
\* it did not
ViewOf(u) == [userId |-> u, username |-> UserItem(u).username,
              showableName |-> UserItem(u).showableName, role |-> UserItem(u).role]
ZeroView == [userId |-> "", username |-> "", showableName |-> "", role |-> ""]

\* the reference values of the items, the empty ones included
ItemRefs(items) ==
    UNION {{items[i].paidBy, items[i].createdBy}
           \cup {items[i].participants[j].userId : j \in 1..Len(items[i].participants)}
           : i \in 1..Len(items)}

\* C6: the listing's query asks for descending order and the response lists
\* the expenses in the order the store returned them, the later dateTime first.
C6_DescendingPassthrough ==
    IsListing =>
        /\ \A c \in Range(storeCalls) :
              c.op = "Query" => c.input.ScanIndexForward = FALSE
        /\ Succeeded =>
              /\ Len(response.Body) = Len(PrimaryItems)
              /\ \A i \in 1..Len(response.Body) :
                    /\ response.Body[i].expenseId = PrimaryItems[i].expenseId
                    /\ response.Body[i].dateTime = PrimaryItems[i].dateTime
              /\ \A i, j \in 1..Len(response.Body) :
                    i < j => response.Body[i].dateTime > response.Body[j].dateTime

\* C6 witness: two expenses with dateTime 1 < 2, listed as [2, 1]
C6_Witness ==
    /\ IsListing /\ Succeeded
    /\ Len(response.Body) = 2
    /\ response.Body[1].dateTime = 2
    /\ response.Body[2].dateTime = 1

\* C7: when the batched fetch succeeds with the views of only some of the
\* referenced users, the listing still answers 200; each paidBy, createdBy
\* and participant whose id was returned carries that user's view, each
\* other one the zero view, and no expense or participant is dropped or moved.
C7_EnrichmentCompleteness ==
    (IsListing /\ Len(BatchCalls) = 1 /\ BatchCalls[1].outcome = "ok") =>
        LET got == {it.userId : it \in BatchCalls[1].result}
            body == response.Body
        IN /\ Succeeded
           /\ Len(body) = Len(PrimaryItems)
           /\ \A i \in 1..Len(body) :
                 LET it == PrimaryItems[i]
                 IN /\ body[i].expenseId = it.expenseId
                    /\ body[i].paidByUser =
                          IF it.paidBy \in got THEN ViewOf(it.paidBy) ELSE ZeroView
                    /\ body[i].createdByUser =
                          IF it.createdBy \in got THEN ViewOf(it.createdBy) ELSE ZeroView
                    /\ Len(body[i].participants) = Len(it.participants)
                    /\ \A j \in 1..Len(it.participants) :
                          LET u == it.participants[j].userId
                              bp == body[i].participants[j]
                          IN /\ bp.userId = u
                             /\ <<bp.username, bp.showableName, bp.role>> =
                                   IF u \in got
                                   THEN <<ViewOf(u).username, ViewOf(u).showableName,
                                          ViewOf(u).role>>
                                   ELSE <<"", "", "">>

\* C7 witness: u1 and u2 are referenced, only u1's view comes back; u1's
\* participant carries its view and u2's the zero view
C7_Witness ==
    /\ IsListing /\ Succeeded
    /\ Len(BatchCalls) = 1
    /\ {it.userId : it \in BatchCalls[1].result} = {"u1"}
    /\ Len(response.Body) = 2
    /\ \E i \in 1..2 :
          /\ Len(response.Body[i].participants) = 2
          /\ response.Body[i].participants[1].username = "ann"
          /\ response.Body[i].participants[2].userId = "u2"
          /\ response.Body[i].participants[2].username = ""
          /\ response.Body[i].paidBy = "u2"
          /\ response.Body[i].paidByUser = ZeroView

\* C8: when the primary call succeeds with entities none of whose
\* reference fields is set, or with no entity, no BatchGetItem is issued.
C8_ZeroReferenceNoFetch ==
    (/\ IsRead
     /\ storeCalls # <<>>
     /\ storeCalls[1].outcome = "ok"
     /\ ItemRefs(PrimaryItems) \subseteq {""})
    => Len(BatchCalls) = 0

\* C9: a request issues at most one batched fetch, exactly one when some
\* reference of the fetched entities is set, and its key list holds each
\* distinct referenced id once.
C9_SingleDeduplicatedBatch ==
    (IsRead /\ storeCalls # <<>> /\ storeCalls[1].outcome = "ok") =>
        LET refs == ItemRefs(PrimaryItems)
        IN /\ Len(BatchCalls) <= 1
           /\ (refs \ {""} # {}) => Len(BatchCalls) = 1
           /\ \A c \in Range(BatchCalls) :
                 /\ refs \ {""} \subseteq DOMAIN c.input
                 /\ DOMAIN c.input \subseteq refs
                 /\ \A id \in DOMAIN c.input : c.input[id] = 1

\* C9 witness: u1 is referenced by two expenses, as payer and as
\* participant, and is one key of the one fetch
C9_Witness ==
    /\ IsListing
    /\ Len(BatchCalls) = 1
    /\ Len(PrimaryItems) = 2
    /\ PrimaryItems[1].paidBy = "u1"
    /\ PrimaryItems[2].paidBy = "u1"
    /\ Len(PrimaryItems[1].participants) = 2
    /\ BatchCalls[1].input = SetToBag({"u1", "u2"})

\* C10: a 200 response carries the entities the store returned in the same
\* order, each with its participants in the same order, and with expenseId,
\* groupId, paidBy, createdBy, dateTime, amount and each participant's
\* userId and share as stored.
C10_OnlyViewsChange ==
    (IsRead /\ Succeeded) =>
        LET body == ResponseExpenses
        IN /\ Len(body) = Len(PrimaryItems)
           /\ \A i \in 1..Len(body) :
                 LET it == PrimaryItems[i]
                 IN /\ body[i].expenseId = it.expenseId
                    /\ body[i].groupId = it.groupId
                    /\ body[i].paidBy = it.paidBy
                    /\ body[i].createdBy = it.createdBy
                    /\ body[i].dateTime = it.dateTime
                    /\ body[i].amount = it.amount
                    /\ Len(body[i].participants) = Len(it.participants)
                    /\ \A j \in 1..Len(it.participants) :
                          /\ body[i].participants[j].userId = it.participants[j].userId
                          /\ body[i].participants[j].share = it.participants[j].share

\* C10 witness: two expenses, views attached to payer and participants
C10_Witness ==
    /\ IsListing /\ Succeeded
    /\ Len(response.Body) = 2
    /\ Len(BatchCalls) = 1
    /\ \E i \in 1..2 :
          /\ Len(response.Body[i].participants) = 2
          /\ response.Body[i].participants[2].username = "bob"
          /\ response.Body[i].paidByUser = ViewOf("u1")

\* C11: populating the already populated expenses again, with the same fetch
\* result, changes nothing.
C11_PopulateIdempotent ==
    (IsListing /\ Len(BatchCalls) = 1 /\ BatchCalls[1].outcome = "ok") =>
        LET userMap == UserMap(BatchCalls[1].result)
            once == Populate(UnmarshalListOfMaps(PrimaryItems), userMap)
        IN /\ ExpensesJSON(once) = response.Body
           /\ Populate(once, userMap) = once

\* C11 witness: the fetch returned both users and the populate step attached
\* views to a payer and to participants
C11_Witness ==
    /\ IsListing /\ Succeeded
    /\ Len(BatchCalls) = 1
    /\ {it.userId : it \in BatchCalls[1].result} = {"u1", "u2"}
    /\ \E i \in 1..Len(response.Body) :
          /\ response.Body[i].paidByUser = ViewOf("u2")
          /\ Len(response.Body[i].participants) = 2
          /\ response.Body[i].participants[1].username = "ann"

-----------------------------------------------------------------------------
(* the request context and the request body *)

\* a JSON value as encoding/json decodes it into interface{}
JSONString(v) == [type |-> "string", value |-> v]
JSONNumber(v) == [type |-> "number", value |-> v]
JSONObject(m) == [type |-> "object", value |-> m]

\* request.RequestContext.Authorizer without a "claims" entry
NoClaims == <<>>

\* an authorizer whose claims carry the subject sub
WithSub(sub) == [claims |-> JSONObject([sub |-> JSONString(sub)])]

\* the authorizers of the requests: no claims, claims that are no map,
\* claims without "sub", a "sub" that is no string, and a subject
Authorizers ==
    {NoClaims,
     [claims |-> JSONString("anonymous")],
     [claims |-> JSONObject(<<>>)],
     [claims |-> JSONObject([sub |-> JSONNumber("7")])]}
    \cup {WithSub(u) : u \in UserIds}

\* claims, ok := authorizer["claims"].(map[string]interface{})
Claims(req) ==
    LET authorizer == req.Authorizer
    IN IF "claims" \in DOMAIN authorizer /\ authorizer.claims.type = "object"
       THEN [ok |-> TRUE, claims |-> authorizer.claims.value]
       ELSE [ok |-> FALSE, claims |-> <<>>]

\* v, _ := claims[k].(string): the empty string when the entry is missing
\* or is no string
StringClaim(claims, k) ==
    IF k \in DOMAIN claims /\ claims[k].type = "string" THEN claims[k].value ELSE ""

\* a request body that json.Unmarshal rejects, and one it decodes
Unparsable == [json |-> FALSE, value |-> <<>>]
JSONBody(v) == [json |-> TRUE, value |-> v]

Request(method, pm, authorizer, body) ==
    [HTTPMethod |-> method, Path |-> <<>>, PathParameters |-> pm,
     Authorizer |-> authorizer, Body |-> body]

-----------------------------------------------------------------------------
(* package financial: the group members *)

\* the items splitter-group-members may hold; no handler writes the table
MemberItems ==
    {[userId |-> "u1", groupId |-> "g1", groupName |-> "flat"],
     [userId |-> "u2", groupId |-> "g1", groupName |-> "flat"],
     [userId |-> "u2", groupId |-> "g2", groupName |-> "trip"]}

MemberTables == SUBSET MemberItems

\* the query without its key condition: the user ids of every item
QueryMembersOfGroup_AnyGroup(members, groupId) ==
    {[userId |-> m.userId] : m \in members}

\* Query on groupId-index with ProjectionExpression "userId"; the index has
\* no sort key, so the items come in no fixed order
QueryMembersOfGroup(members, groupId) ==
    {[userId |-> m.userId] : m \in {x \in members : x.groupId = groupId}}

\* GetGroupUsersHandler on the member table members; q and b are what Query
\* and BatchGetItem come to.  var users []User stays nil, and is marshalled
\* as null, when no key is fetched.
GetGroupUsers(members, req, q, b) ==
    LET groupId == Param(req, "groupId")
        queryInput == [TableName |-> "splitter-group-members",
                       IndexName |-> "groupId-index", groupId |-> groupId,
                       ProjectionExpression |-> "userId"]
        items == IF q = "error" THEN {} ELSE QueryMembersOfGroup(members, groupId)
        queryCall == [op |-> "Query", table |-> queryInput.TableName,
                      input |-> queryInput, outcome |-> q, result |-> items]
        keys == SetToBag({it.userId : it \in items})
        batchCall == [op |-> "BatchGetItem", table |-> "vassistant-users",
                      input |-> keys, outcome |-> b.kind,
                      result |-> BatchResponse(b, keys)]
        users == {UnmarshalUser(it) : it \in batchCall.result}
    IN IF ~HasParam(req, "groupId") \/ groupId = ""
       THEN [response |-> CreateErrorResponse(400, "Group ID is missing"),
             calls |-> <<>>]
       ELSE IF q # "ok"
       THEN [response |-> InternalError, calls |-> <<queryCall>>]
       ELSE IF keys = EmptyBag
       THEN [response |-> OkResponse(200, "null"), calls |-> <<queryCall>>]
       ELSE IF b.kind # "ok"
       THEN [response |-> InternalError, calls |-> <<queryCall, batchCall>>]
       ELSE [response |-> OkResponse(200, {UserJSON(u) : u \in users}),
             calls |-> <<queryCall, batchCall>>]

-----------------------------------------------------------------------------
(* package financial: creating an expense *)

\* json.Unmarshal into User
UnmarshalUserJSON(v) ==
    [UserID |-> v.userId, Username |-> v.username,
     ShowableName |-> v.showableName, Role |-> v.role]

\* json.Unmarshal into FinancialExpense.  A participant's "userId" goes to
\* Participant.UserID, which hides the embedded User's field of that name;
\* the other keys of the embedded User are decoded into it.
UnmarshalExpenseJSON(v) ==
    [ExpenseID |-> v.expenseId, GroupID |-> v.groupId, Amount |-> v.amount,
     DateTime |-> v.dateTime, PaidBy |-> v.paidBy, CreatedBy |-> v.createdBy,
     CreatedAt |-> v.createdAt,
     Participants |-> [j \in 1..Len(v.participants) |->
                          [UserID |-> v.participants[j].userId,
                           Share |-> v.participants[j].share,
                           User |-> [UserID |-> "",
                                     Username |-> v.participants[j].username,
                                     ShowableName |-> v.participants[j].showableName,
                                     Role |-> v.participants[j].role]]],
     PaidByUser |-> UnmarshalUserJSON(v.paidByUser),
     CreatedByUser |-> UnmarshalUserJSON(v.createdByUser)]

\* the marshalling of FinancialExpense with the view fields tagged like the
\* others
MarshalMap_WithViews(e) ==
    [expenseId |-> e.ExpenseID, groupId |-> e.GroupID, amount |-> e.Amount,
     dateTime |-> e.DateTime, paidBy |-> e.PaidBy, createdBy |-> e.CreatedBy,
     participants |-> [j \in 1..Len(e.Participants) |->
                          [userId |-> e.Participants[j].UserID,
                           share |-> e.Participants[j].Share,
                           username |-> e.Participants[j].User.Username,
                           showableName |-> e.Participants[j].User.ShowableName,
                           role |-> e.Participants[j].User.Role]],
     createdAt |-> e.CreatedAt,
     paidByUser |-> UserJSON(e.PaidByUser),
     createdByUser |-> UserJSON(e.CreatedByUser)]

\* attributevalue.MarshalMap of FinancialExpense: the fields tagged
\* dynamodbav:"-" are left out
MarshalMap(e) ==
    [expenseId |-> e.ExpenseID, groupId |-> e.GroupID, amount |-> e.Amount,
     dateTime |-> e.DateTime, paidBy |-> e.PaidBy, createdBy |-> e.CreatedBy,
     participants |-> [j \in 1..Len(e.Participants) |->
                          [userId |-> e.Participants[j].UserID,
                           share |-> e.Participants[j].Share]],
     createdAt |-> e.CreatedAt]

\* uuid.New().String(): an id no item of the table has
NewUUID(tbl) == ExpenseIds[Len(tbl) + 1]

\* time.Now().Format(time.RFC3339); the clock ticks with every item written
Now(tbl) == Timestamps[Len(tbl) + 1]

\* the four assignments that keep what the body supplied for a field
StampExpense_KeepSupplied(expense, id, groupId, sub, now) ==
    [expense EXCEPT !.ExpenseID = IF @ = "" THEN id ELSE @,
                    !.GroupID = IF @ = "" THEN groupId ELSE @,
                    !.CreatedBy = IF @ = "" THEN sub ELSE @,
                    !.CreatedAt = IF @ = "" THEN now ELSE @]

\* the four assignments made to the decoded expense
StampExpense(expense, id, groupId, sub, now) ==
    [expense EXCEPT !.ExpenseID = id, !.GroupID = groupId,
                    !.CreatedBy = sub, !.CreatedAt = now]

\* PostGroupExpenseHandler on the table tbl; p is what PutItem comes to.
\* The result: the response, the store calls and the table afterwards.
PostGroupExpense(tbl, req, p) ==
    LET c == Claims(req)
        sub == StringClaim(c.claims, "sub")
        groupId == Param(req, "groupId")
        expense == StampExpense(UnmarshalExpenseJSON(req.Body.value),
                                NewUUID(tbl), groupId, sub, Now(tbl))
        av == MarshalMap(expense)
        putCall == [op |-> "PutItem", table |-> "splitter-expenses",
                    input |-> av, outcome |-> p, result |-> <<>>]
    IN IF ~c.ok
       THEN [response |-> CreateErrorResponse(403, "Unauthorized: Invalid claims format"),
             calls |-> <<>>, table |-> tbl]
       ELSE IF ~HasParam(req, "groupId") \/ groupId = ""
       THEN [response |-> CreateErrorResponse(400, "Group ID is missing"),
             calls |-> <<>>, table |-> tbl]
       ELSE IF ~req.Body.json
       THEN [response |-> CreateErrorResponse(400, "Invalid request body"),
             calls |-> <<>>, table |-> tbl]
       ELSE IF p # "ok"
       THEN [response |-> InternalError, calls |-> <<putCall>>, table |-> tbl]
       ELSE [response |-> OkResponse(201, ExpenseJSON(expense)),
             calls |-> <<putCall>>, table |-> Append(tbl, av)]

ZeroUserJSON == UserJSON(ZeroUser)

\* a body of POST /groups/{groupId}/expenses whose dateTime is the time of
\* the request.  A forged body also names an id, a group, a creator and a
\* creation time of its own, and carries user views.
ExpenseBody(tbl, paidBy, ps, forged) ==
    [expenseId |-> IF forged THEN "e1" ELSE "",
     groupId |-> IF forged THEN "g2" ELSE "",
     amount |-> "100",
     dateTime |-> Len(tbl) + 1,
     paidBy |-> paidBy,
     participants |-> [j \in 1..Len(ps) |->
                          [userId |-> ps[j].userId, share |-> ps[j].share,
                           username |-> IF forged THEN "eve" ELSE "",
                           showableName |-> "", role |-> ""]],
     paidByUser |-> IF forged THEN UserJSON(UnmarshalUser(UserItem("u2")))
                    ELSE ZeroUserJSON,
     createdBy |-> IF forged THEN "u2" ELSE "",
     createdAt |-> IF forged THEN "yesterday" ELSE "",
     createdByUser |-> ZeroUserJSON]

\* the bodies of the requests that create an expense
ExpenseBodies(tbl) ==
    {Unparsable}
    \cup {JSONBody(ExpenseBody(tbl, paidBy, ps, forged)) :
             paidBy \in {"", "u2"},
             ps \in {<<>>, <<ParticipantItem("u1"), ParticipantItem("u2")>>},
             forged \in BOOLEAN}

\* the callers that create an expense
PostAuthorizers == Authorizers \ {WithSub("u2")}

PostParams == ParamMaps({"groupId"}, [groupId |-> {"g1"}])

PostGroupExpenseHandler(req, p) ==
    LET r == PostGroupExpense(table, req, p)
    IN /\ Idle
       /\ Len(table) < MaxExpenses
       /\ request' = req
       /\ response' = r.response
       /\ storeCalls' = r.calls
       /\ table' = r.table
       /\ handler' = "PostGroupExpenseHandler"
       /\ UNCHANGED <<routes, invoked, chat>>

GetGroupUsersHandler(members, req, q, b) ==
    LET r == GetGroupUsers(members, req, q, b)
    IN /\ Idle
       /\ request' = req
       /\ response' = r.response
       /\ storeCalls' = r.calls
       /\ handler' = "GetGroupUsersHandler"
       /\ UNCHANGED <<routes, invoked, table, chat>>

\* attributevalue.UnmarshalMap into GroupMember
UnmarshalGroupMember(item) ==
    [UserID |-> item.userId, GroupID |-> item.groupId, GroupName |-> item.groupName]

\* json.Marshal of GroupMember
GroupMemberJSON(m) ==
    [userId |-> m.UserID, groupId |-> m.GroupID, groupName |-> m.GroupName]

\* GetItem on splitter-group-members: the item with the key, or none
GetMember(members, input) ==
    LET found == {m \in members : m.userId = input.userId /\ m.groupId = input.groupId}
    IN IF found = {} THEN <<>> ELSE <<CHOOSE m \in found : TRUE>>

\* the query without its key condition: every item of the table
QueryGroupsOfUser_Everyone(members, userId) == members

\* Query on splitter-group-members by its partition key userId
QueryGroupsOfUser(members, userId) == {m \in members : m.userId = userId}

\* the answer to a member item that is not there, given as a store failure
GroupNotFound_AsFailure == InternalError

\* the answer of GetGroupHandler when GetItem returns no item
GroupNotFound == CreateErrorResponse(404, "Group not found")

\* GetGroupHandler without the test of groupId
GetGroup_NoGroupCheck(members, req, g) ==
    LET c == Claims(req)
        sub == StringClaim(c.claims, "sub")
        groupId == Param(req, "groupId")
        queryInput == [TableName |-> "splitter-group-members",
                       userId |-> sub, groupId |-> groupId]
        found == IF g = "error" THEN <<>> ELSE GetMember(members, queryInput)
        getCall == [op |-> "GetItem", table |-> queryInput.TableName,
                    input |-> queryInput, outcome |-> g, result |-> found]
    IN IF ~c.ok
       THEN [response |-> CreateErrorResponse(403, "Unauthorized: Invalid claims format"),
             calls |-> <<>>]
       ELSE IF g = "error"
       THEN [response |-> InternalError, calls |-> <<getCall>>]
       ELSE IF found = <<>>
       THEN [response |-> GroupNotFound,
             calls |-> <<getCall>>]
       ELSE IF g = "malformed"
       THEN [response |-> InternalError, calls |-> <<getCall>>]
       ELSE [response |-> OkResponse(200, GroupMemberJSON(UnmarshalGroupMember(found[1]))),
             calls |-> <<getCall>>]

\* GetGroupHandler testing groupId before the claims
GetGroup_GroupCheckFirst(members, req, g) ==
    LET c == Claims(req)
        sub == StringClaim(c.claims, "sub")
        groupId == Param(req, "groupId")
        queryInput == [TableName |-> "splitter-group-members",
                       userId |-> sub, groupId |-> groupId]
        found == IF g = "error" THEN <<>> ELSE GetMember(members, queryInput)
        getCall == [op |-> "GetItem", table |-> queryInput.TableName,
                    input |-> queryInput, outcome |-> g, result |-> found]
    IN IF ~HasParam(req, "groupId") \/ groupId = ""
       THEN [response |-> CreateErrorResponse(400, "Group ID is missing"),
             calls |-> <<>>]
       ELSE IF ~c.ok
       THEN [response |-> CreateErrorResponse(403, "Unauthorized: Invalid claims format"),
             calls |-> <<>>]
       ELSE IF g = "error"
       THEN [response |-> InternalError, calls |-> <<getCall>>]
       ELSE IF found = <<>>
       THEN [response |-> GroupNotFound, calls |-> <<getCall>>]
       ELSE IF g = "malformed"
       THEN [response |-> InternalError, calls |-> <<getCall>>]
       ELSE [response |-> OkResponse(200, GroupMemberJSON(UnmarshalGroupMember(found[1]))),
             calls |-> <<getCall>>]

\* GetGroupHandler on the member table members; g is what GetItem comes to
GetGroup(members, req, g) ==
    LET c == Claims(req)
        sub == StringClaim(c.claims, "sub")
        groupId == Param(req, "groupId")
        queryInput == [TableName |-> "splitter-group-members",
                       userId |-> sub, groupId |-> groupId]
        found == IF g = "error" THEN <<>> ELSE GetMember(members, queryInput)
        getCall == [op |-> "GetItem", table |-> queryInput.TableName,
                    input |-> queryInput, outcome |-> g, result |-> found]
    IN IF ~c.ok
       THEN [response |-> CreateErrorResponse(403, "Unauthorized: Invalid claims format"),
             calls |-> <<>>]
       ELSE IF ~HasParam(req, "groupId") \/ groupId = ""
       THEN [response |-> CreateErrorResponse(400, "Group ID is missing"),
             calls |-> <<>>]
       ELSE IF g = "error"
       THEN [response |-> InternalError, calls |-> <<getCall>>]
       ELSE IF found = <<>>
       THEN [response |-> GroupNotFound,
             calls |-> <<getCall>>]
       ELSE IF g = "malformed"
       THEN [response |-> InternalError, calls |-> <<getCall>>]
       ELSE [response |-> OkResponse(200, GroupMemberJSON(UnmarshalGroupMember(found[1]))),
             calls |-> <<getCall>>]

\* GetGroupsHandler on the member table members; q is what Query comes to
GetGroups(members, req, q) ==
    LET c == Claims(req)
        sub == StringClaim(c.claims, "sub")
        queryInput == [TableName |-> "splitter-group-members", userId |-> sub,
                       ProjectionExpression |-> "userId, groupId, groupName"]
        items == IF q = "error" THEN {} ELSE QueryGroupsOfUser(members, sub)
        queryCall == [op |-> "Query", table |-> queryInput.TableName,
                      input |-> queryInput, outcome |-> q, result |-> items]
    IN IF ~c.ok
       THEN [response |-> CreateErrorResponse(403, "Unauthorized: Invalid claims format"),
             calls |-> <<>>]
       ELSE IF q # "ok"
       THEN [response |-> InternalError, calls |-> <<queryCall>>]
       ELSE [response |-> OkResponse(200, {GroupMemberJSON(UnmarshalGroupMember(it)) :
                                              it \in items}),
             calls |-> <<queryCall>>]

GetGroupHandler(members, req, g) ==
    LET r == GetGroup(members, req, g)
    IN /\ Idle
       /\ request' = req
       /\ response' = r.response
       /\ storeCalls' = r.calls
       /\ handler' = "GetGroupHandler"
       /\ UNCHANGED <<routes, invoked, table, chat>>

GetGroupsHandler(members, req, q) ==
    LET r == GetGroups(members, req, q)
    IN /\ Idle
       /\ request' = req
       /\ response' = r.response
       /\ storeCalls' = r.calls
       /\ handler' = "GetGroupsHandler"
       /\ UNCHANGED <<routes, invoked, table, chat>>

\* the callers of the handlers that read no claims
ReadAuthorizers == {NoClaims, WithSub("u1")}

ServiceNext ==
    \/ \E pm \in PostParams, a \in PostAuthorizers, body \in ExpenseBodies(table),
          p \in {"ok", "error"} :
          PostGroupExpenseHandler(Request("POST", pm, a, body), p)
    \/ \E pm \in GroupParams, a \in ReadAuthorizers, o \in StoreOutcomes :
          GetGroupExpensesHandler(Request("GET", pm, a, Unparsable), o[1], o[2])
    \/ \E pm \in ExpenseParams, a \in ReadAuthorizers, o \in StoreOutcomes :
          GetExpenseHandler(Request("GET", pm, a, Unparsable), o[1], o[2])
    \/ \E members \in MemberTables, pm \in GroupParams, a \in ReadAuthorizers,
          o \in StoreOutcomes :
          GetGroupUsersHandler(members, Request("GET", pm, a, Unparsable), o[1], o[2])
    \/ \E members \in MemberTables, pm \in GroupParams, a \in Authorizers,
          g \in Outcomes :
          GetGroupHandler(members, Request("GET", pm, a, Unparsable), g)
    \/ \E members \in MemberTables, a \in Authorizers, q \in Outcomes :
          GetGroupsHandler(members, Request("GET", <<>>, a, Unparsable), q)
    \/ Return

ServiceSpec == Init /\ [][ServiceNext]_vars

-----------------------------------------------------------------------------
(* the handlers' answers to what the store comes to *)

IsGroupUsers == handler = "GetGroupUsersHandler"
IsPost == handler = "PostGroupExpenseHandler"

\* the handlers that fetch user views in one batched call
Fetching == IsListing \/ IsSingle \/ IsGroupUsers

\* C12: when the batched fetch of GetGroupExpensesHandler, GetExpenseHandler
\* or GetGroupUsersHandler fails, the response is the 500 error and carries
\* no entity; a 200 is only answered after a batched fetch that succeeded,
\* if one was made.
C12_BatchFailureIsInternalError ==
    Fetching =>
        /\ (\E i \in 1..Len(BatchCalls) : BatchCalls[i].outcome = "error") =>
              /\ response.StatusCode = 500
              /\ response.Body = [error |-> "Internal server error"]
        /\ response.StatusCode = 200 =>
              \A i \in 1..Len(BatchCalls) : BatchCalls[i].outcome = "ok"

\* C12 witness: the members of a group were read, the batched fetch of the
\* two users failed and the answer is 500
C12_Witness ==
    /\ IsGroupUsers
    /\ Len(storeCalls) = 2
    /\ storeCalls[1].outcome = "ok"
    /\ Cardinality(storeCalls[1].result) = 2
    /\ storeCalls[2].op = "BatchGetItem"
    /\ storeCalls[2].outcome = "error"
    /\ response.StatusCode = 500

Created == IsPost /\ response.StatusCode = 201

\* the subject the caller's claims name, if they name one
CallerHasSub ==
    /\ "claims" \in DOMAIN request.Authorizer
    /\ request.Authorizer.claims.type = "object"
    /\ "sub" \in DOMAIN request.Authorizer.claims.value
    /\ request.Authorizer.claims.value.sub.type = "string"

CallerSub == request.Authorizer.claims.value.sub.value

\* C13: an expense that PostGroupExpenseHandler created is answered with 201
\* and with an id that is not empty and that no other item has, the path's
\* group, the caller's subject as creator and a well-formed creation time,
\* whatever the body said of these four; dateTime, paidBy and participants
\* are the body's, and the item written carries the same values.
C13_CreationStampsServerFields ==
    /\ \A i, j \in 1..Len(table) :
          table[i].expenseId = table[j].expenseId => i = j
    /\ Created =>
          LET body == request.Body.value
              answer == response.Body
              item == storeCalls[1].input
          IN /\ answer.expenseId # ""
             /\ \A i \in 1..(Len(table) - 1) : table[i].expenseId # answer.expenseId
             /\ answer.groupId = request.PathParameters.groupId
             /\ CallerHasSub => answer.createdBy = CallerSub
             /\ \E n \in 1..Len(Timestamps) : answer.createdAt = Timestamps[n]
             /\ answer.dateTime = body.dateTime
             /\ answer.paidBy = body.paidBy
             /\ answer.participants = body.participants
             /\ Len(storeCalls) = 1 /\ storeCalls[1].op = "PutItem"
             /\ table[Len(table)] = item
             /\ item.expenseId = answer.expenseId
             /\ item.groupId = answer.groupId
             /\ item.createdBy = answer.createdBy
             /\ item.createdAt = answer.createdAt
             /\ item.dateTime = answer.dateTime
             /\ item.paidBy = answer.paidBy
             /\ Len(item.participants) = Len(answer.participants)
             /\ \A j \in 1..Len(item.participants) :
                   /\ item.participants[j].userId = answer.participants[j].userId
                   /\ item.participants[j].share = answer.participants[j].share

\* C13 witness: a second expense was created by u1 from a body that names
\* the first expense's id, another group, another creator and a creation
\* time of its own, with two participants
C13_Witness ==
    /\ Created
    /\ Len(table) = 2
    /\ CallerHasSub /\ CallerSub = "u1"
    /\ request.Body.value.expenseId = table[1].expenseId
    /\ request.Body.value.groupId = "g2"
    /\ request.Body.value.createdBy = "u2"
    /\ request.Body.value.createdAt = "yesterday"
    /\ Len(request.Body.value.participants) = 2
    /\ response.Body.createdBy = "u1"

-----------------------------------------------------------------------------
(* the handlers' answers to requests they cannot serve *)

IsGroup == handler = "GetGroupHandler"
IsGroups == handler = "GetGroupsHandler"

\* the handlers of the registered routes that call the store
ReachesStore == IsListing \/ IsGroupUsers \/ IsPost \/ IsGroup \/ IsGroups

\* the handlers that use the caller's subject
UsesSubject == IsPost \/ IsGroup \/ IsGroups

\* the request carries claims that are a map
ClaimsAreMap ==
    /\ "claims" \in DOMAIN request.Authorizer
    /\ request.Authorizer.claims.type = "object"

NoStoreCall == storeCalls = <<>>

\* C14: a request without claims, or with claims that are no map, to a
\* registered handler that calls the store is answered 403 and no store call
\* is made.
C14_InvalidClaimsForbidden ==
    (ReachesStore /\ ~ClaimsAreMap) =>
        response.StatusCode = 403 /\ NoStoreCall

\* C15: a request whose claims are a map without a string "sub" is answered
\* 403 at once, and no store call carries an empty subject as a key, as
\* userId or as createdBy.
C15_MissingSubjectForbidden ==
    (UsesSubject /\ ClaimsAreMap /\ ~CallerHasSub) =>
        /\ response.StatusCode = 403
        /\ NoStoreCall

\* the request names no group, or an empty one
NoGroupId ==
    "groupId" \notin DOMAIN request.PathParameters \/ request.PathParameters.groupId = ""

NoExpenseId ==
    "expenseId" \notin DOMAIN request.PathParameters
        \/ request.PathParameters.expenseId = ""

GroupScoped == IsListing \/ IsSingle \/ IsGroupUsers \/ IsGroup \/ IsPost

\* the request fails the validation of its handler
Invalid ==
    \/ GroupScoped /\ NoGroupId
    \/ IsSingle /\ NoExpenseId
    \/ IsPost /\ ~request.Body.json

\* C16 as stated: every request to a group-scoped handler without a groupId
\* (an expenseId for GetExpenseHandler), and every request to
\* PostGroupExpenseHandler with a malformed body, is answered 400 and no
\* store call is made.
C16_InvalidInputBadRequest ==
    Invalid => response.StatusCode = 400 /\ NoStoreCall

\* C16 amended: such a request is answered without a store call; the answer
\* is 400, unless the handler reads the claims (GetGroupHandler,
\* PostGroupExpenseHandler) and they are no map, which it answers with 403
\* before it looks at the path variables and the body.
C16_InvalidInputBadRequestAfterClaims ==
    Invalid =>
        /\ NoStoreCall
        /\ response.StatusCode =
              IF (IsGroup \/ IsPost) /\ ~ClaimsAreMap THEN 403 ELSE 400

\* C16 witness: a caller with claims asked for a group without naming one
C16_Witness ==
    /\ IsGroup
    /\ ClaimsAreMap
    /\ NoGroupId
    /\ response.StatusCode = 400
    /\ NoStoreCall

\* C17: a store call that returns an error is the last store call of its
\* request and the request is answered 500; no two store calls of a request
\* are the same operation on the same table with the same input.
C17_StoreFailureNoRetry ==
    /\ \A i \in 1..Len(storeCalls) :
          storeCalls[i].outcome = "error" =>
              /\ i = Len(storeCalls)
              /\ response.StatusCode = 500
    /\ \A i, j \in 1..Len(storeCalls) :
          (/\ storeCalls[i].op = storeCalls[j].op
           /\ storeCalls[i].table = storeCalls[j].table
           /\ storeCalls[i].input = storeCalls[j].input) => i = j

\* C17 witness: the one PutItem of a creation returned an error, the answer
\* is 500 and the table does not hold the item
C17_Witness ==
    /\ IsPost
    /\ Len(storeCalls) = 1
    /\ storeCalls[1].op = "PutItem"
    /\ storeCalls[1].outcome = "error"
    /\ response.StatusCode = 500
    /\ Len(table) = 1
    /\ table[1] # storeCalls[1].input

\* the handler got no item from its GetItem
GotNoItem ==
    /\ IsSingle \/ IsGroup
    /\ storeCalls # <<>>
    /\ storeCalls[1].op = "GetItem"
    /\ storeCalls[1].outcome # "error"
    /\ storeCalls[1].result = <<>>

\* C19: when the GetItem of GetExpenseHandler or of GetGroupHandler returns
\* no item, the answer is 404 and no other store call is made.
C19_MissingItemNotFound ==
    GotNoItem => response.StatusCode = 404 /\ Len(storeCalls) = 1

\* C19 witness: u1 asked for group g2, the member table held no such item
\* and the answer is 404
C19_Witness ==
    /\ IsGroup
    /\ GotNoItem
    /\ storeCalls[1].input.userId = "u1"
    /\ storeCalls[1].input.groupId = "g2"
    /\ response = CreateErrorResponse(404, "Group not found")

-----------------------------------------------------------------------------
(* the chat messages *)

\* the ids uuid.New() hands out for messages, in order
MessageIds == <<"m1", "m2", "m3", "m4", "m5", "m6">>

\* an authorizer whose claims carry the subject and the user name of u
WithUser(u) ==
    [claims |-> JSONObject(("sub" :> JSONString(u))
                           @@ ("cognito:username" :> JSONString(UserItem(u).username)))]

\* the callers of the message handlers
MessageAuthorizers ==
    {NoClaims, [claims |-> JSONString("anonymous")], [claims |-> JSONObject(<<>>)]}
    \cup {WithUser(u) : u \in UserIds}

\* the bodies of the requests that post a message
MessageBodies == {Unparsable, JSONBody([content |-> "hello"]), JSONBody([content |-> ""])}

\* json.Unmarshal into IncomingRequest
UnmarshalIncomingRequest(v) == [Content |-> v.content]

\* attributevalue.MarshalMap of GetMessage
MarshalMessage(m) ==
    [id |-> m.Id, userId |-> m.UserId, username |-> m.Username, role |-> m.Role,
     content |-> m.Content, createdAt |-> m.CreatedAt]

\* attributevalue.UnmarshalMap into GetMessage
UnmarshalMessage(item) ==
    [Id |-> item.id, UserId |-> item.userId, Username |-> item.username,
     Role |-> item.role, Content |-> item.content, CreatedAt |-> item.createdAt]

\* json.Marshal of GetMessage
MessageJSON(m) ==
    [id |-> m.Id, userId |-> m.UserId, username |-> m.Username, role |-> m.Role,
     content |-> m.Content, createdAt |-> m.CreatedAt]

\* PutItem on chat: the items in the order they were written
PutMessage(cht, item) == Append(cht, item)

\* the message written for the assistant under the caller's name
AssistantMessage_AsCaller(id, sub, now) ==
    [Id |-> id, UserId |-> sub, Username |-> "", Role |-> "user",
     Content |-> "This is a mock response from the assistant.", CreatedAt |-> now]

\* the GetMessage that saveAssistantMessage builds
AssistantMessage(id, sub, now) ==
    [Id |-> id, UserId |-> sub, Username |-> "ai-assistant", Role |-> "assistant",
     Content |-> "This is a mock response from the assistant.", CreatedAt |-> now]

\* saveAssistantMessage taking the caller's message back when its own write
\* fails
saveAssistantMessage_UndoOnFailure(cht, sub, p) ==
    LET assistantMessage == AssistantMessage(MessageIds[Len(cht) + 1], sub,
                                             Timestamps[Len(cht) + 1])
        av == MarshalMessage(assistantMessage)
        putCall == [op |-> "PutItem", table |-> "chat", input |-> av,
                    outcome |-> p, result |-> <<>>]
    IN IF p # "ok"
       THEN [ok |-> FALSE, message |-> assistantMessage, calls |-> <<putCall>>,
             chat |-> SubSeq(cht, 1, Len(cht) - 1)]
       ELSE [ok |-> TRUE, message |-> assistantMessage, calls |-> <<putCall>>,
             chat |-> PutMessage(cht, av)]

\* saveAssistantMessage on the table cht; p is what PutItem comes to.  The
\* result: whether err is nil, the message, the store call and the table.
saveAssistantMessage(cht, sub, p) ==
    LET assistantMessage == AssistantMessage(MessageIds[Len(cht) + 1], sub,
                                             Timestamps[Len(cht) + 1])
        av == MarshalMessage(assistantMessage)
        putCall == [op |-> "PutItem", table |-> "chat", input |-> av,
                    outcome |-> p, result |-> <<>>]
    IN IF p # "ok"
       THEN [ok |-> FALSE, message |-> assistantMessage, calls |-> <<putCall>>,
             chat |-> cht]
       ELSE [ok |-> TRUE, message |-> assistantMessage, calls |-> <<putCall>>,
             chat |-> PutMessage(cht, av)]

\* postMessageHandler on the table cht; p1 and p2 are what the PutItem of the
\* caller's message and that of the assistant's come to
postMessage(cht, req, p1, p2) ==
    LET c == Claims(req)
        sub == StringClaim(c.claims, "sub")
        username == StringClaim(c.claims, "cognito:username")
        incomingReq == UnmarshalIncomingRequest(req.Body.value)
        newMessage == [Id |-> MessageIds[Len(cht) + 1], UserId |-> sub,
                       Username |-> username, Role |-> "user",
                       Content |-> incomingReq.Content,
                       CreatedAt |-> Timestamps[Len(cht) + 1]]
        av == MarshalMessage(newMessage)
        putCall == [op |-> "PutItem", table |-> "chat", input |-> av,
                    outcome |-> p1, result |-> <<>>]
        saved == saveAssistantMessage(PutMessage(cht, av), sub, p2)
    IN IF ~c.ok
       THEN [response |-> CreateErrorResponse(403, "Unauthorized: Invalid claims format"),
             calls |-> <<>>, chat |-> cht]
       ELSE IF ~req.Body.json
       THEN [response |-> CreateErrorResponse(400, "Invalid request body format"),
             calls |-> <<>>, chat |-> cht]
       ELSE IF p1 # "ok"
       THEN [response |-> CreateErrorResponse(500, "Failed to save message"),
             calls |-> <<putCall>>, chat |-> cht]
       ELSE IF ~saved.ok
       THEN [response |-> CreateErrorResponse(500, "Failed to save assistant message"),
             calls |-> <<putCall>> \o saved.calls, chat |-> saved.chat]
       ELSE [response |-> OkResponse(201, <<MessageJSON(newMessage),
                                            MessageJSON(saved.message)>>),
             calls |-> <<putCall>> \o saved.calls, chat |-> saved.chat]

\* queryMessagesByUserID: the user's items by createdAt, ascending
queryMessagesByUserID(cht, userID) == SelectSeq(cht, LAMBDA it : it.userId = userID)

\* getMessageHandler on the table cht; q is what Query comes to
getMessage(cht, req, q) ==
    LET c == Claims(req)
        sub == StringClaim(c.claims, "sub")
        items == IF q = "error" THEN <<>> ELSE queryMessagesByUserID(cht, sub)
        queryCall == [op |-> "Query", table |-> "chat",
                      input |-> [TableName |-> "chat", userId |-> sub,
                                 ScanIndexForward |-> TRUE],
                      outcome |-> q, result |-> items]
    IN IF ~c.ok
       THEN [response |-> CreateErrorResponse(403, "Unauthorized: Invalid claims format"),
             calls |-> <<>>]
       ELSE IF q # "ok"
       THEN [response |-> InternalError, calls |-> <<queryCall>>]
       ELSE [response |-> OkResponse(200, [i \in 1..Len(items) |->
                                              MessageJSON(UnmarshalMessage(items[i]))]),
             calls |-> <<queryCall>>]

\* what the two writes of postMessageHandler come to; the second is only
\* made after the first succeeded
PutOutcomes == {<<"ok", "ok">>, <<"ok", "error">>, <<"error", "ok">>}

postMessageHandler(req, p1, p2) ==
    LET r == postMessage(chat, req, p1, p2)
    IN /\ Idle
       /\ Len(chat) + 2 <= MaxMessages
       /\ request' = req
       /\ response' = r.response
       /\ storeCalls' = r.calls
       /\ chat' = r.chat
       /\ handler' = "postMessageHandler"
       /\ UNCHANGED <<routes, invoked, table>>

getMessageHandler(req, q) ==
    LET r == getMessage(chat, req, q)
    IN /\ Idle
       /\ request' = req
       /\ response' = r.response
       /\ storeCalls' = r.calls
       /\ handler' = "getMessageHandler"
       /\ UNCHANGED <<routes, invoked, table, chat>>

MessagesNext ==
    \/ \E a \in MessageAuthorizers, body \in MessageBodies, p \in PutOutcomes :
          postMessageHandler(Request("POST", <<>>, a, body), p[1], p[2])
    \/ \E a \in MessageAuthorizers, q \in Outcomes :
          getMessageHandler(Request("GET", <<>>, a, Unparsable), q)
    \/ Return

MessagesSpec == Init /\ [][MessagesNext]_vars

-----------------------------------------------------------------------------
(* posting a message *)

IsPostMessage == handler = "postMessageHandler"

\* the items of the PutItem calls that succeeded, in the order of the calls
Written(calls) ==
    LET done == SelectSeq(calls, LAMBDA c : c.op = "PutItem" /\ c.outcome = "ok")
    IN [i \in 1..Len(done) |-> done[i].input]

\* the caller's message was written and the assistant's was not
ReplyFailed ==
    /\ IsPostMessage
    /\ Len(storeCalls) = 2
    /\ storeCalls[1].outcome = "ok"
    /\ storeCalls[2].outcome = "error"

\* C18: a request to postMessageHandler leaves in the chat table what was
\* there before, followed by exactly the items whose write succeeded, and
\* makes no call but PutItem; when the caller's message was written and the
\* write of the assistant's failed, the answer is 500 and the caller's
\* message is the last item of the table.
C18_NoRollback ==
    [][(handler = "none" /\ handler' = "postMessageHandler") =>
          /\ chat' = chat \o Written(storeCalls')
          /\ \A i \in 1..Len(storeCalls') : storeCalls'[i].op = "PutItem"
          /\ ReplyFailed' =>
                /\ response'.StatusCode = 500
                /\ chat' = Append(chat, storeCalls'[1].input)]_vars

\* C18 witness: the write of the assistant's message failed after u1's
\* message was written; the answer is 500 and u1's message is in the table
C18_Witness ==
    /\ ReplyFailed
    /\ response = CreateErrorResponse(500, "Failed to save assistant message")
    /\ chat # <<>>
    /\ chat[Len(chat)] = storeCalls[1].input
    /\ chat[Len(chat)].userId = "u1"
    /\ chat[Len(chat)].role = "user"
    /\ chat[Len(chat)].content = "hello"

Posted == IsPostMessage /\ response.StatusCode = 201

\* the caller's claims name a user
CallerHasUsername ==
    /\ ClaimsAreMap
    /\ "cognito:username" \in DOMAIN request.Authorizer.claims.value
    /\ request.Authorizer.claims.value["cognito:username"].type = "string"

CallerUsername == request.Authorizer.claims.value["cognito:username"].value

\* C20: a request that postMessageHandler answers with 201 made two writes
\* to chat, both successful: first the caller's message, with role "user",
\* the caller's user name and the body's content, then the assistant's, with
\* role "assistant" and user name "ai-assistant"; both carry the caller's
\* subject as userId, and the answer lists exactly these two, in this order.
C20_PostWritesUserThenAssistant ==
    Posted =>
        /\ Len(storeCalls) = 2
        /\ \A i \in 1..2 :
              /\ storeCalls[i].op = "PutItem"
              /\ storeCalls[i].table = "chat"
              /\ storeCalls[i].outcome = "ok"
        /\ LET first == storeCalls[1].input
               second == storeCalls[2].input
           IN /\ first.role = "user"
              /\ CallerHasUsername => first.username = CallerUsername
              /\ first.content = request.Body.value.content
              /\ second.role = "assistant"
              /\ second.username = "ai-assistant"
              /\ first.userId = second.userId
              /\ CallerHasSub => first.userId = CallerSub
              /\ first.id # second.id
              /\ response.Body = <<first, second>>
              /\ Len(chat) >= 2
              /\ chat[Len(chat) - 1] = first
              /\ chat[Len(chat)] = second

\* C20 witness: bob (u2) posted "hello" and got 201 with his message and the
\* assistant's, in a table that held a message already
C20_Witness ==
    /\ Posted
    /\ CallerHasSub /\ CallerSub = "u2"
    /\ request.Body.value.content = "hello"
    /\ Len(chat) = 3
    /\ Len(response.Body) = 2
    /\ response.Body[1].username = "bob"
    /\ response.Body[1].role = "user"
    /\ response.Body[2].role = "assistant"
    /\ response.Body[2].userId = "u2"

-----------------------------------------------------------------------------
(* the users of a group *)

\* the user ids the membership query returned
MemberIds == {it.userId : it \in storeCalls[1].result}

\* C21: a 200 of GetGroupUsersHandler follows a membership query for the
\* path's group; with no member no fetch is made; otherwise one BatchGetItem
\* is made with one key for each member id, and the answer holds exactly one
\* view for each id the fetch resolved, all of them of users that are
\* members of the group.
C21_GroupUsersViews ==
    (IsGroupUsers /\ response.StatusCode = 200) =>
        /\ storeCalls[1].op = "Query"
        /\ storeCalls[1].input.groupId = request.PathParameters.groupId
        /\ IF MemberIds = {}
           THEN Len(storeCalls) = 1
           ELSE /\ Len(storeCalls) = 2
                /\ storeCalls[2].op = "BatchGetItem"
                /\ storeCalls[2].input = [u \in MemberIds |-> 1]
                /\ LET resolved == {it.userId : it \in storeCalls[2].result}
                   IN /\ response.Body = {ViewOf(u) : u \in resolved}
                      /\ \A v \in response.Body :
                            /\ v.userId \in MemberIds
                            /\ \E m \in MemberItems :
                                  /\ m.userId = v.userId
                                  /\ m.groupId = request.PathParameters.groupId

\* C21 witness: group g1 has the members u1 and u2, the fetch resolved u2
\* only and the answer is the view of u2
C21_Witness ==
    /\ IsGroupUsers
    /\ response.StatusCode = 200
    /\ request.PathParameters.groupId = "g1"
    /\ MemberIds = {"u1", "u2"}
    /\ Len(storeCalls) = 2
    /\ response.Body = {ViewOf("u2")}

-----------------------------------------------------------------------------
(* what is written to the store *)

\* the attributes of a user view
ViewAttributes == {"paidByUser", "createdByUser", "username", "showableName", "role"}

\* an item of splitter-expenses without any attribute of a user view
Viewless(item) ==
    /\ DOMAIN item \cap ViewAttributes = {}
    /\ \A j \in 1..Len(item.participants) :
          DOMAIN item.participants[j] \cap ViewAttributes = {}

\* C22: no item written to splitter-expenses, and no item the table holds,
\* has an attribute of a user view, whatever the request body carried; the
\* handlers that read make no PutItem.
C22_ViewsNeverPersisted ==
    /\ \A i \in 1..Len(table) : Viewless(table[i])
    /\ \A i \in 1..Len(storeCalls) :
          storeCalls[i].op = "PutItem" =>
              /\ IsPost
              /\ Viewless(storeCalls[i].input)
    /\ (IsListing \/ IsSingle \/ IsGroupUsers \/ IsGroup \/ IsGroups) =>
          \A i \in 1..Len(storeCalls) :
              storeCalls[i].op \in {"Query", "GetItem", "BatchGetItem"}

\* C22 witness: an expense was created from a body that carries a view of
\* the payer and user names of its two participants; the answer carries
\* them and the item written does not
C22_Witness ==
    /\ Created
    /\ request.Body.value.paidByUser.userId = "u2"
    /\ Len(request.Body.value.participants) = 2
    /\ request.Body.value.participants[1].username = "eve"
    /\ response.Body.paidByUser.userId = "u2"
    /\ response.Body.participants[1].username = "eve"
    /\ table[Len(table)] = storeCalls[1].input
    /\ Viewless(storeCalls[1].input)

-----------------------------------------------------------------------------
(* the keys of the batched fetch *)

\* C24: no key of a BatchGetItem on vassistant-users is the empty string,
\* whatever the references of the expenses read are.
C24_KeysNonEmpty ==
    \A i \in 1..Len(BatchCalls) : "" \notin BagToSet(BatchCalls[i].input)

-----------------------------------------------------------------------------
(* the caller's groups *)

\* the membership records in the answer of GetGroupsHandler or
\* GetGroupHandler
AnsweredMemberships == IF IsGroups THEN response.Body ELSE {response.Body}

\* C26: GetGroupsHandler queries the memberships with the caller's subject
\* as userId and GetGroupHandler gets the key made of the caller's subject
\* and the path's groupId; every membership record in a 200 of either is a
\* record of the caller.
C26_OwnMembershipsOnly ==
    (IsGroups \/ IsGroup) =>
        /\ \A i \in 1..Len(storeCalls) :
              /\ storeCalls[i].table = "splitter-group-members"
              /\ CallerHasSub => storeCalls[i].input.userId = CallerSub
              /\ IsGroup => /\ storeCalls[i].op = "GetItem"
                            /\ storeCalls[i].input.groupId = request.PathParameters.groupId
              /\ IsGroups => storeCalls[i].op = "Query"
        /\ response.StatusCode = 200 =>
              \A m \in AnsweredMemberships :
                  /\ CallerHasSub
                  /\ m.userId = CallerSub
                  /\ IsGroup => m.groupId = request.PathParameters.groupId

\* C26 witness: u2 asked for the groups and the answer is the two
\* memberships of u2
C26_Witness ==
    /\ IsGroups
    /\ response.StatusCode = 200
    /\ CallerHasSub /\ CallerSub = "u2"
    /\ {m.groupId : m \in response.Body} = {"g1", "g2"}
    /\ \A m \in response.Body : m.userId = "u2"

-----------------------------------------------------------------------------
(* whose view is attached *)

\* the view part of a participant of the answer
ParticipantView(p) ==
    [username |-> p.username, showableName |-> p.showableName, role |-> p.role]

\* the same part of the view of user u
NamePart(u) ==
    [username |-> ViewOf(u).username, showableName |-> ViewOf(u).showableName,
     role |-> ViewOf(u).role]

\* the ids of the users among the items a BatchGetItem returned that its
\* keys did not ask for
Unrequested(call) == {it.userId : it \in call.result} \ BagToSet(call.input)

\* C28: in a 200 of GetGroupExpensesHandler or GetExpenseHandler a payer's
\* or creator's view that is not the zero view has the userId of the
\* reference it is attached to and is the view of that user, and a
\* participant's view that is not zero is the view of the participant's
\* userId, also when BatchGetItem returned items that were not asked for.
C28_ViewBelongsToReference ==
    (IsRead /\ Succeeded) =>
        \A i \in 1..Len(ResponseExpenses) :
            LET e == ResponseExpenses[i]
            IN /\ e.paidByUser # ZeroView =>
                     e.paidByUser.userId = e.paidBy /\ e.paidByUser = ViewOf(e.paidBy)
               /\ e.createdByUser # ZeroView =>
                     e.createdByUser.userId = e.createdBy
                         /\ e.createdByUser = ViewOf(e.createdBy)
               /\ \A j \in 1..Len(e.participants) :
                     ParticipantView(e.participants[j]) # ParticipantView(ZeroView)
                         => /\ e.participants[j].userId \in UserIds
                            /\ ParticipantView(e.participants[j])
                                  = NamePart(e.participants[j].userId)

\* C28 witness: the fetch returned the user u2 that no key asked for; the
\* payer u1 has its view and neither payer nor creator has the view of u2
C28_Witness ==
    /\ IsListing /\ Succeeded
    /\ Len(BatchCalls) = 1
    /\ Unrequested(BatchCalls[1]) = {"u2"}
    /\ \E i \in 1..Len(response.Body) :
          /\ response.Body[i].paidBy = "u1"
          /\ response.Body[i].paidByUser = ViewOf("u1")
    /\ \A i \in 1..Len(response.Body) :
          /\ response.Body[i].paidByUser # ViewOf("u2")
          /\ response.Body[i].createdByUser # ViewOf("u2")

-----------------------------------------------------------------------------
(* the order of the tests *)

ChecksClaimsFirst == IsGroup \/ IsPost

\* C29: GetGroupHandler and PostGroupExpenseHandler answer a request whose
\* claims are no map with 403 whether or not its groupId is missing or its
\* body malformed, and a request with a missing groupId or a malformed body
\* gets 400 only if its claims are a map; neither makes a store call.
C29_ClaimsBeforeValidation ==
    ChecksClaimsFirst =>
        /\ ~ClaimsAreMap => response.StatusCode = 403 /\ NoStoreCall
        /\ response.StatusCode = 400 => ClaimsAreMap /\ Invalid /\ NoStoreCall

\* C29 witness: a creation without claims, without groupId and with a body
\* that does not parse is answered 403
C29_Witness ==
    /\ IsPost
    /\ ~ClaimsAreMap
    /\ NoGroupId
    /\ ~request.Body.json
    /\ response.StatusCode = 403
    /\ NoStoreCall

-----------------------------------------------------------------------------
(* package main: the routes registered at start-up.  Here a path is kept   *)
(* as its sequence of slashes and words, a word standing for a run of      *)
(* characters other than the slash.                                        *)

\* the words of the registered patterns
Words ==
    {"messages", "financial", "groups", "expenses", "users",
     "expense-split-types", "expense-categories"}

\* "/w1/w2/...": the literal pattern of the words ws
RECURSIVE Literal(_)
Literal(ws) ==
    IF ws = <<>> THEN <<>> ELSE <<Lit("/"), Lit(Head(ws))>> \o Literal(Tail(ws))

\* (?P<groupId>.+)
GroupIdCapture_AnyCharacter == Group("groupId", ".")

\* (?P<groupId>[^/]+)
GroupIdCapture == Group("groupId", "[^/]")

MessagesPattern == Literal(<<"VassistantBackendProxy", "messages">>)
GroupsPattern == Literal(<<"VassistantBackendProxy", "financial", "groups">>)
GroupPattern == GroupsPattern \o <<Lit("/"), GroupIdCapture>>
GroupExpensesPattern == GroupPattern \o Literal(<<"expenses">>)
GroupUsersPattern == GroupPattern \o Literal(<<"users">>)
SplitTypesPattern ==
    Literal(<<"VassistantBackendProxy", "financial", "expense-split-types">>)
CategoriesPattern ==
    Literal(<<"VassistantBackendProxy", "financial", "expense-categories">>)

\* the router after init()
StartupRoutes ==
    <<Route("POST", MessagesPattern, "PostMessageHandler"),
      Route("GET", MessagesPattern, "GetMessageHandler"),
      Route("GET", GroupsPattern, "GetGroupsHandler"),
      Route("GET", GroupPattern, "GetGroupHandler"),
      Route("GET", GroupExpensesPattern, "GetGroupExpensesHandler"),
      Route("POST", GroupExpensesPattern, "PostGroupExpenseHandler"),
      Route("GET", GroupUsersPattern, "GetGroupUsersHandler"),
      Route("GET", SplitTypesPattern, "GetExpenseSplitTypeHandler"),
      Route("GET", CategoriesPattern, "GetExpenseCategoriesHandler")>>

\* the text between two slashes of a request path: nothing or a word
Components == {<<>>} \cup {<<w>> : w \in Words}

\* "/c1/c2/...": the path of the components cs
RECURSIVE PathOf(_)
PathOf(cs) ==
    IF cs = <<>> THEN <<>> ELSE <<"/">> \o Head(cs) \o PathOf(Tail(cs))

\* request paths: the stage's prefix followed by up to MaxSegments components
StartupPaths ==
    {PathOf(<<<<"VassistantBackendProxy">>>> \o cs) : cs \in SeqsUpTo(Components, MaxSegments)}

\* the path parameters a request comes with from the gateway: none, or the
\* proxy parameter and a groupId of another request
IncomingParams ==
    {<<>>, [proxy |-> <<"financial">>, groupId |-> <<"stale">>]}

StartupInit ==
    /\ routes = StartupRoutes
    /\ request = NoRequest
    /\ response = NoResponse
    /\ invoked = <<>>
    /\ table = <<>>
    /\ chat = <<>>
    /\ storeCalls = <<>>
    /\ handler = "none"

StartupNext ==
    \/ /\ Idle
       /\ \E m \in Methods, p \in StartupPaths, pm \in IncomingParams :
             Serve([HTTPMethod |-> m, Path |-> p, PathParameters |-> pm])
    \/ Return

StartupSpec == StartupInit /\ [][StartupNext]_vars

\* the routes of the request's verb and path in the table rs, by Denotes
MatchingIn(rs) ==
    {k \in 1..Len(rs) :
        rs[k].Method = request.HTTPMethod /\ Denotes(rs[k].Path, request.Path)}

\* C27: over the routes registered at start-up, a request matches at most
\* one route, a captured groupId is not empty and holds no slash, and the
\* table in the reverse order of registration dispatches the request to the
\* same handler with the same path parameters.
C27_StartupTableUnambiguous ==
    Served =>
        /\ Cardinality(MatchingIn(StartupRoutes)) <= 1
        /\ \A k \in 1..Len(invoked) :
              "groupId" \in DOMAIN invoked[k].request.PathParameters =>
                  /\ invoked[k].request.PathParameters.groupId # <<>>
                  /\ "/" \notin Range(invoked[k].request.PathParameters.groupId)
        /\ LET backwards == ServeFrom(Reverse(routes), 1, request)
           IN /\ backwards.response = response
              /\ Len(backwards.invoked) = Len(invoked)
              /\ \A k \in 1..Len(invoked) :
                    /\ backwards.invoked[k].Handler = invoked[k].Handler
                    /\ backwards.invoked[k].request = invoked[k].request

\* C27 witness: GET on the expenses of the group named "expenses": the
\* pattern of two routes admits the path, one of them has the verb, and the
\* groupId is the one word
C27_Witness ==
    /\ Served
    /\ request.HTTPMethod = "GET"
    /\ Cardinality({k \in 1..Len(routes) : Denotes(routes[k].Path, request.Path)}) = 2
    /\ Len(invoked) = 1
    /\ invoked[1].Handler = "GetGroupExpensesHandler"
    /\ invoked[1].request.PathParameters.groupId = <<"expenses">>

\* C30: the request a handler is called with has as path parameters exactly
\* the named groups of its route, each with the text it captured; nothing of
\* the path parameters the request came with is left.
C30_PathParametersReplaced ==
    (Served /\ invoked # <<>>) =>
        LET route == routes[invoked[1].route]
            seen == invoked[1].request.PathParameters
        IN /\ DOMAIN seen = NamedGroups(route.Path)
           /\ Fits(route.Path, request.Path, seen)
           /\ \A key \in DOMAIN request.PathParameters \ NamedGroups(route.Path) :
                 key \notin DOMAIN seen
           /\ NamedGroups(route.Path) = {} => seen = <<>>

\* C30 witness: a request that came with the parameters proxy and groupId
\* reached GetGroupUsersHandler with the captured groupId alone
C30_Witness ==
    /\ Served
    /\ DOMAIN request.PathParameters = {"proxy", "groupId"}
    /\ Len(invoked) = 1
    /\ invoked[1].Handler = "GetGroupUsersHandler"
    /\ DOMAIN invoked[1].request.PathParameters = {"groupId"}
    /\ invoked[1].request.PathParameters.groupId = <<"groups">>

-----------------------------------------------------------------------------
(* package main: rootHandler, the router of init() serving a request with  *)
(* the handlers of the packages messages and financial                     *)

\* GetExpenseCategoriesHandler
GetExpenseCategories(req) ==
    [response |-> OkResponse(200, <<"FOOD">>), calls |-> <<>>]

\* GetExpenseSplitTypeHandler
GetExpenseSplitType(req) ==
    [response |-> OkResponse(200, <<"PERCENTAGE">>), calls |-> <<>>]

\* matches[i] as the string the handlers read: a capture of one word is
\* that word
Text(ws) == IF Len(ws) = 1 THEN ws[1] ELSE ws

\* the request as the handler receives it from Serve
Received(req) ==
    [req EXCEPT !.PathParameters =
        [k \in DOMAIN req.PathParameters |-> Text(req.PathParameters[k])]]

\* route.Handler(request): the handler function registered under the name h
\* on the tables tbl, cht and members; o is what the store calls of a
\* reading handler come to and p what the writes of a writing one come to.
\* The result: the response, the store calls and the tables afterwards.
Handle(h, req, tbl, cht, members, o, p) ==
    LET read(r) == [response |-> r.response, calls |-> r.calls,
                    table |-> tbl, chat |-> cht]
    IN CASE h = "PostMessageHandler" ->
                LET r == postMessage(cht, req, p[1], p[2])
                IN [response |-> r.response, calls |-> r.calls,
                    table |-> tbl, chat |-> r.chat]
         [] h = "GetMessageHandler" -> read(getMessage(cht, req, o[1]))
         [] h = "GetGroupsHandler" -> read(GetGroups(members, req, o[1]))
         [] h = "GetGroupHandler" -> read(GetGroup(members, req, o[1]))
         [] h = "GetGroupExpensesHandler" ->
                read(GetGroupExpenses(tbl, req, o[1], o[2]))
         [] h = "PostGroupExpenseHandler" ->
                LET r == PostGroupExpense(tbl, req, p[1])
                IN [response |-> r.response, calls |-> r.calls,
                    table |-> r.table, chat |-> cht]
         [] h = "GetGroupUsersHandler" ->
                read(GetGroupUsers(members, req, o[1], o[2]))
         [] h = "GetExpenseSplitTypeHandler" -> read(GetExpenseSplitType(req))
         [] h = "GetExpenseCategoriesHandler" -> read(GetExpenseCategories(req))

\* rootHandler: router.Serve(request) with the handler of the chosen route
\* run to its end
rootHandler(req, members, o, p) ==
    LET s == ServeFrom(routes, 1, req)
        h == IF s.invoked = <<>> THEN "none" ELSE s.invoked[1].Handler
        r == IF s.invoked = <<>>
             THEN [response |-> s.response, calls |-> <<>>,
                   table |-> table, chat |-> chat]
             ELSE Handle(h, Received(s.invoked[1].request), table, chat,
                         members, o, p)
    IN /\ Idle
       /\ h = "PostGroupExpenseHandler" => Len(table) < MaxExpenses
       /\ h = "PostMessageHandler" => Len(chat) + 2 <= MaxMessages
       /\ request' = req
       /\ response' = r.response
       /\ invoked' = s.invoked
       /\ storeCalls' = r.calls
       /\ table' = r.table
       /\ chat' = r.chat
       /\ handler' = "rootHandler"
       /\ UNCHANGED routes

\* the paths of the requests: one for each registered pattern, one no
\* pattern admits and one with nothing where the groupId is expected
RequestPaths ==
    {PathOf(<<<<"VassistantBackendProxy">>>> \o cs) :
        cs \in {<<<<"messages">>>>,
                <<<<"financial">>>>,
                <<<<"financial">>, <<"groups">>>>,
                <<<<"financial">>, <<"groups">>, <<"g1">>>>,
                <<<<"financial">>, <<"groups">>, <<"g1">>, <<"expenses">>>>,
                <<<<"financial">>, <<"groups">>, <<>>, <<"expenses">>>>,
                <<<<"financial">>, <<"groups">>, <<"g1">>, <<"users">>>>,
                <<<<"financial">>, <<"expense-split-types">>>>,
                <<<<"financial">>, <<"expense-categories">>>>}}

\* the callers: one without claims and one signed in
RequestAuthorizers == {NoClaims, WithUser("u1")}

\* the bodies: one that is no JSON and one with the fields of a message
\* and of an expense
RequestBodies(tbl) ==
    {Unparsable,
     JSONBody(ExpenseBody(tbl, "u2", <<ParticipantItem("u1"), ParticipantItem("u2")>>,
                          FALSE)
              @@ [content |-> "hello"])}

ProgramNext ==
    \/ /\ Idle
       /\ \E m \in Methods, path \in RequestPaths, a \in RequestAuthorizers,
             body \in RequestBodies(table), members \in {{}, MemberItems},
             o \in StoreOutcomes, p \in PutOutcomes :
             rootHandler([Request(m, <<>>, a, body) EXCEPT !.Path = path],
                         members, o, p)
    \/ Return

ProgramSpec == StartupInit /\ [][ProgramNext]_vars

-----------------------------------------------------------------------------
(* C23: every request served through the router ends in a response with a  *)
(* nil error; the status of the response is one of 200, 201, 400, 403, 404 *)
(* and 500, and the body of a response whose status is 400 or more is an   *)
(* object with the one field error.                                        *)

C23_ResponseNeverError ==
    handler = "rootHandler" =>
        /\ response.err = "nil"
        /\ response.StatusCode \in {200, 201, 400, 403, 404, 500}
        /\ response.StatusCode >= 400 => DOMAIN response.Body = {"error"}

\* a routed handler whose store call failed answered 500
C23_Witness ==
    /\ handler = "rootHandler"
    /\ invoked # <<>>
    /\ storeCalls # <<>>
    /\ storeCalls[Len(storeCalls)].outcome = "error"
    /\ response.StatusCode = 500

-----------------------------------------------------------------------------
(* C25: a request makes at most two store calls, one after the other: the  *)
(* first is a Query, a GetItem or a PutItem; a BatchGetItem is only ever   *)
(* the second call; and a second call is made only after a first call that *)
(* did not fail.                                                           *)

C25_PrimaryThenBatch ==
    ~Idle =>
        /\ Len(storeCalls) <= 2
        /\ storeCalls # <<>> => storeCalls[1].op \in {"Query", "GetItem", "PutItem"}
        /\ \A i \in 1..Len(storeCalls) :
              storeCalls[i].op = "BatchGetItem" => i = 2
        /\ Len(storeCalls) = 2 => storeCalls[1].outcome # "error"

\* a routed listing queried the expenses and then fetched their users
C25_Witness ==
    /\ handler = "rootHandler"
    /\ invoked # <<>>
    /\ invoked[1].Handler = "GetGroupExpensesHandler"
    /\ Len(storeCalls) = 2
    /\ storeCalls[1].op = "Query"
    /\ storeCalls[1].outcome = "ok"
    /\ storeCalls[2].op = "BatchGetItem"

=============================================================================
